---- MODULE Spec2Model ----
(***************************************************************************)
(* A model of the star-catalog generator of mdhender/aow: the catalog     *)
(* operations (Merge, Sort, SortByDistance), generator construction (New, *)
(* WithOffset), the open-cluster generator and a generation run, the     *)
(* volume and density functions, the dice, GenXYZ and the background      *)
(* population.                                                             *)
(*                                                                         *)
(* Numbers.  The program computes in float64.  The model computes in      *)
(* integers: coordinates and distances are thousandths of a parsec, the   *)
(* age of a star system is in millionths of a billion years, a draw of    *)
(* Float64 is in thousandths, a radius that scales coordinates is in      *)
(* 1/120 parsec.  Sqrt and Cbrt round down, Quot rounds towards zero.     *)
(* Where float64 rounding decides a branch of the program the model keeps *)
(* it: RoundsBelow for int(pct*total), RoundsUp for base + range*u.  Sqrt, *)
(* Cbrt and Quot bind their argument as a value (x \in {a}), so that it is *)
(* worked out once.                                                        *)
(***************************************************************************)
EXTENDS Integers, Sequences, FiniteSets, TLC

VARIABLES
    heap,   \* the StarSystem_t objects allocated so far; a pointer is an index
    cats,   \* catalog name -> Catalog_t.StarSystems, a sequence of pointers
    op,     \* the catalog operation called last, with its arguments
    made,   \* the last call of New: its arguments and what it returned
    oc,     \* the call of NewOpenCluster under way: its position and its locals
    runs,   \* two generation runs from one seed, side by side
    call,   \* one call of a function of the packages: arguments, draws, result
    bg      \* the call of NewBackgroundPopulation under way

catalogVars == <<heap, cats, op>>

vars == <<heap, cats, op, made, oc, runs, call, bg>>

(***************************************************************************)
(* Bounds of the model.                                                    *)
(***************************************************************************)
MaxObjects == 4     \* star systems allocated over one behaviour
MaxOptions == 2     \* options passed to one call of New
MaxN == 4           \* the target number of systems passed to New
MaxSeed == 47       \* the seeds of a run are 0..MaxSeed
MaxClusterSystems == 2  \* a run goes on with a cluster of at most so many systems

(***************************************************************************)
(* StellarPopulation_e                                                     *)
(***************************************************************************)
YoungPopulationI == 0
IntermediatePopulationI == 1
OldPopulationI == 2
DiskPopulationII == 3
HaloPopulationII == 4

StellarPopulation_e ==
    {YoungPopulationI, IntermediatePopulationI, OldPopulationI,
     DiskPopulationII, HaloPopulationII}

(***************************************************************************)
(* Coordinates                                                             *)
(***************************************************************************)
XYZ(x, y, z) == [X |-> x, Y |-> y, Z |-> z]

RECURSIVE SqrtBetween(_, _, _)
\* the largest r in lo..hi with r*r <= n, by bisection (lo*lo <= n < (hi+1)^2);
\* mid, the middle of lo..hi, is bound as a value, so it is worked out once
SqrtBetween(n, lo, hi) ==
    IF lo >= hi THEN lo
    ELSE CHOOSE r \in {IF mid * mid <= n THEN SqrtBetween(n, mid, hi)
                        ELSE SqrtBetween(n, lo, mid - 1) :
                        mid \in {(lo + hi + 1) \div 2}} : TRUE

\* math.Sqrt, rounded down to a whole number
Sqrt(n) == CHOOSE r \in {SqrtBetween(m, 0, 46340) : m \in {n}} : TRUE

RECURSIVE CbrtBetween(_, _, _)
\* the largest r in lo..hi with r*r*r <= n, by bisection
CbrtBetween(n, lo, hi) ==
    IF lo >= hi THEN lo
    ELSE CHOOSE r \in {IF mid * mid * mid <= n THEN CbrtBetween(n, mid, hi)
                        ELSE CbrtBetween(n, lo, mid - 1) :
                        mid \in {(lo + hi + 1) \div 2}} : TRUE

\* math.Cbrt, rounded down to a whole number
Cbrt(n) == CHOOSE r \in {CbrtBetween(m, 0, 1000) : m \in {n}} : TRUE

\* a / b of two floats, the quotient rounded towards zero
Quot(a, b) ==
    CHOOSE q \in {IF x >= 0 THEN x \div b ELSE -((-x) \div b) : x \in {a}} : TRUE

\* a distance that leaves out the third axis
DistanceToXY(c, o) ==
    LET dx == o.X - c.X
        dy == o.Y - c.Y
    IN  Sqrt(dx * dx + dy * dy)

DistanceTo(c, o) ==
    LET dx == o.X - c.X
        dy == o.Y - c.Y
        dz == o.Z - c.Z
    IN  Sqrt(dx * dx + dy * dy + dz * dz)

\* c.Scale(s): c in thousandths, s in 1/120 parsec
Scale(c, s) == XYZ(Quot(c.X * s, 120), Quot(c.Y * s, 120), Quot(c.Z * s, 120))

\* a translation that leaves out the third axis
TranslateXY(c, s) == XYZ(c.X + s.X, c.Y + s.Y, c.Z)

Translate(c, s) == XYZ(c.X + s.X, c.Y + s.Y, c.Z + s.Z)

(***************************************************************************)
(* Errors, options and New                                                 *)
(***************************************************************************)
NoError == "nil"
ErrNeighborhoodOffsetTooSmall == "galactic neighborhood offset too small"
ErrNeighborhoodOffsetTooLarge == "galactic neighborhood offset too large"
ErrPRNGNil == "PRNG cannot be nil"

Nil == [nil |-> TRUE]

Abs(x) == IF x < 0 THEN -x ELSE x

\* an Option value: the closure WithOffset(r, h) returns
Option(r, h) == [name |-> "WithOffset", r |-> r, h |-> h]

\* an option that takes an offset of exactly 300 parsecs for too small
WithOffsetAbove(o, g) ==
    LET r == Abs(o.r)
        h == Abs(o.h)
    IN  IF r <= 300 THEN ErrNeighborhoodOffsetTooSmall
        ELSE IF r > 30000 THEN ErrNeighborhoodOffsetTooLarge
        ELSE IF h > 1250 THEN ErrNeighborhoodOffsetTooLarge
        ELSE NoError

\* the closure of WithOffset(r, h) called on the generator g: the error it returns
WithOffset(o, g) ==
    LET r == Abs(o.r)
        h == Abs(o.h)
    IN  IF r < 300 THEN ErrNeighborhoodOffsetTooSmall
        ELSE IF r > 30000 THEN ErrNeighborhoodOffsetTooLarge
        ELSE IF h > 1250 THEN ErrNeighborhoodOffsetTooLarge
        ELSE NoError

\* BasicPopulationModelTable: densities in systems per million cubic parsecs,
\* ages in thousandths of a billion years
BasicPopulationModelTable ==
    [YoungPopulationI |-> [Density |-> 34400, BaseAge |-> 0, AgeRange |-> 2000],
     IntermediatePopulationI |-> [Density |-> 27200, BaseAge |-> 2000, AgeRange |-> 3000],
     OldPopulationI |-> [Density |-> 15800, BaseAge |-> 5000, AgeRange |-> 3000],
     DiskPopulationII |-> [Density |-> 3390, BaseAge |-> 8000, AgeRange |-> 1500],
     HaloPopulationII |-> [Density |-> 339, BaseAge |-> 9500, AgeRange |-> 3000],
     CombinedDensity |-> 81129,
     Volume |-> 0]

\* PopulationModelForSolLikeNeighborhood(n, tweak), the tweak a whole number
PopulationModelForSolLikeNeighborhood(n, tweak) ==
    LET cubicParsecsPerStarSystem ==
            IF 0 < tweak /\ tweak <= 1 THEN 12 + tweak ELSE 12
    IN  [BasicPopulationModelTable EXCEPT !.Volume = n * cubicParsecsPerStarSystem]

\* PopulationModelForEarthLikeSystems(n, tweak), the tweak a whole number
PopulationModelForEarthLikeSystems(n, tweak) ==
    LET cubicParsecsPerStarSystem ==
            IF 0 < tweak /\ tweak <= 5 THEN 150 + tweak ELSE 150
    IN  [BasicPopulationModelTable EXCEPT
            !.Volume = n * 2 * cubicParsecsPerStarSystem]

\* VolumeForEarthLikeSystems(n, tweak), the tweak a whole number
VolumeForEarthLikeSystems(n, tweak) ==
    LET cubicParsecsPerStarSystem ==
            IF 0 < tweak /\ tweak <= 5 THEN 150 + tweak ELSE 150
    IN  n * 2 * cubicParsecsPerStarSystem

\* a volume that takes every positive tweak
VolumeForSolLikeNeighborhoodAnyTweak(n, tweak) ==
    LET cubicParsecsPerStarSystem == IF 0 < tweak THEN 12 + tweak ELSE 12
    IN  n * cubicParsecsPerStarSystem

\* VolumeForSolLikeNeighborhood(n, tweak), the tweak a whole number
VolumeForSolLikeNeighborhood(n, tweak) ==
    LET cubicParsecsPerStarSystem ==
            IF 0 < tweak /\ tweak <= 1 THEN 12 + tweak ELSE 12
    IN  n * cubicParsecsPerStarSystem

\* the product of two numbers in millionths, in millionths: the parts of the
\* product are rounded down
Mul(a, b) ==
    LET ah == a \div 1000
        al == a % 1000
        bh == b \div 1000
        bl == b % 1000
    IN  ah * bh + (ah * bl + al * bh) \div 1000 + (al * bl) \div 1000000

\* math.E to the power f/10, in millionths, for f in 0..9
EToTheTenths ==
    <<1000000, 1105171, 1221403, 1349859, 1491825, 1648721, 1822119, 2013753,
      2225541, 2459603>>

RECURSIVE EToThe(_)
\* math.E to the whole power q, in millionths
EToThe(q) ==
    IF q = 0 THEN 1000000
    ELSE IF q > 0 THEN Mul(2718282, EToThe(q - 1))
    ELSE Mul(367879, EToThe(q + 1))

\* math.Pow(math.E, x), in millionths: x is in 1/14000, the unit in which r/3500
\* and h/200 .. h/2000 are whole for whole r and h, and is taken to the tenth
\* below it
PowE(x) ==
    LET t == x \div 1400
    IN  Mul(EToThe(t \div 10), EToTheTenths[(t % 10) + 1])

\* AdvancedPopulationModelTable(r, h), r and h in whole parsecs: densities in
\* systems per million cubic parsecs, ages in thousandths of a billion years.
\* The exponents -(r/3500) and -(h/200) .. -(h/2000) are in 1/14000.
AdvancedPopulationModelTable(r, h) ==
    LET radial == PowE(-(4 * r))
        group(density, scale, base, range) ==
            [Density |-> Mul(Mul(density, radial), PowE(-(scale * Abs(h)))),
             BaseAge |-> base, AgeRange |-> range]
        young == group(373000, 70, 0, 2000)
        intermediate == group(280000, 35, 2000, 3000)
        old == group(160000, 20, 5000, 3000)
        disk == group(33900, 14, 8000, 1500)
        halo == group(3390, 7, 9500, 3000)
    IN  [YoungPopulationI |-> young, IntermediatePopulationI |-> intermediate,
         OldPopulationI |-> old, DiskPopulationII |-> disk,
         HaloPopulationII |-> halo,
         CombinedDensity |-> young.Density + intermediate.Density + old.Density
                                 + disk.Density + halo.Density,
         Volume |-> 0]

\* PopulationModelForOtherNeighborhoods(n, r, h, tweak), the tweak a whole
\* number: the volume is n/CombinedDensity, or twice that under tweak 1,
\* rounded down to whole cubic parsecs
PopulationModelForOtherNeighborhoods(n, r, h, tweak) ==
    LET pm == AdvancedPopulationModelTable(Abs(r), Abs(h))
        times == IF 0 < tweak /\ tweak <= 1 THEN 1 + tweak ELSE 1
    IN  [pm EXCEPT !.Volume = (n * 1000000 * times) \div pm.CombinedDensity]

\* VolumeForOtherNeighborhoods(n, r, h, tweak), the tweak a whole number
VolumeForOtherNeighborhoods(n, r, h, tweak) ==
    LET pm == AdvancedPopulationModelTable(Abs(r), Abs(h))
        times == IF 0 < tweak /\ tweak <= 1 THEN 1 + tweak ELSE 1
    IN  (n * 1000000 * times) \div pm.CombinedDensity

RECURSIVE LeastRadius(_, _)
\* the least whole r, from r up, whose sphere holds the volume: 4*pi*r^3 >= 3*volume,
\* with 355/113 for pi
LeastRadius(volume, r) ==
    IF 4 * 355 * r * r * r >= 3 * 113 * volume THEN r
    ELSE LeastRadius(volume, r + 1)

\* math.Floor in the place of math.Ceil
RadiusBelowVolume(volume) ==
    IF LeastRadius(volume, 0) = 0 THEN 0 ELSE LeastRadius(volume, 0) - 1

\* math.Ceil(math.Cbrt((3 * volume) / (4 * math.Pi)))
RadiusOfVolume(volume) == LeastRadius(volume, 0)

RECURSIVE ApplyEveryOption(_, _, _)
\* a loop that calls every option and returns the first error afterwards
ApplyEveryOption(options, g, i) ==
    IF i > Len(options) THEN [err |-> NoError, applied |-> Len(options)]
    ELSE LET err == WithOffset(options[i], g)
             rest == ApplyEveryOption(options, g, i + 1)
         IN  IF err # NoError THEN [err |-> err, applied |-> rest.applied]
             ELSE rest

RECURSIVE ApplyOptions(_, _, _)
\* the loop of New over its options, from the i-th on: the error that ended it
\* and the number of options called
ApplyOptions(options, g, i) ==
    IF i > Len(options) THEN [err |-> NoError, applied |-> Len(options)]
    ELSE LET err == WithOffset(options[i], g)
         IN  IF err # NoError THEN [err |-> err, applied |-> i]
             ELSE ApplyOptions(options, g, i + 1)

\* what New(n, prng, cat, options...) returns
NewResult(n, prng, cat, options) ==
    IF prng = "nil" THEN [g |-> Nil, err |-> ErrPRNGNil, applied |-> 0]
    ELSE LET g == [prng |-> prng, typeOfCatalog |-> 0,
                   pm |-> [BasicPopulationModelTable EXCEPT !.Volume = 0],
                   Radius |-> 0]
             r == ApplyOptions(options, g, 1)
             pm == PopulationModelForSolLikeNeighborhood(n, 0)
         IN  IF r.err # NoError THEN [g |-> Nil, err |-> r.err, applied |-> r.applied]
             ELSE [g |-> [g EXCEPT !.pm = pm, !.Radius = RadiusOfVolume(pm.Volume)],
                   err |-> NoError, applied |-> r.applied]

\* the error of a call that has not returned
Unreturned == "unreturned"

\* the locals of NewOpenCluster before the call
NotCalled ==
    [pc |-> "none", isTightlyBound |-> FALSE, clusterAge |-> 0,
     stpop |-> YoungPopulationI, clusterRadius |-> 0, numberOfStarSystems |-> 0,
     coreCount |-> 0, tidalCount |-> 0, extendedHaloCount |-> 0,
     catalog |-> <<>>, err |-> Unreturned]

\* no call of a function under way
NoCall == [fn |-> "none", done |-> FALSE]

\* a call of the function fn about to be made
CallOf(fn, args) == [fn |-> fn, done |-> FALSE, args |-> args, result |-> 0]

\* the call after it returned
Returned(result) == [call EXCEPT !.done = TRUE, !.result = result]

\* no call of NewBackgroundPopulation under way
NoBackground == [pc |-> "none"]

\* no run under way
NoRuns == <<>>

NotMade == [called |-> FALSE, n |-> 0, prng |-> "nil", cat |-> 0, options |-> <<>>,
            g |-> Nil, err |-> NoError, applied |-> 0]

(***************************************************************************)
(* StarSystem_t and Catalog_t                                              *)
(***************************************************************************)
\* &StarSystem_t{Population: .., Age: .., Coordinates: ..}: distance is zero
StarSystem(pop, age, xyz) ==
    [Population |-> pop, Age |-> age, Coordinates |-> xyz, distance |-> 0]

CatalogNames == {"catalog", "cluster"}

Range(s) == {s[i] : i \in DOMAIN s}

\* the sequence s without its i-th element
Remove(s, i) == SubSeq(s, 1, i - 1) \o SubSeq(s, i + 1, Len(s))

RECURSIVE SortSlice(_, _)
\* sort.Slice(x, less): x is left in some arrangement in which no element is
\* less than one before it; the library does not promise a stable sort.
\* less is the set of the pairs <<p, q>> for which the less function holds.
\* The arrangements are built from the front: any element that no remaining
\* element is less than may come next.
SortSlice(s, less) ==
    IF s = <<>> THEN {<<>>}
    ELSE UNION {{<<s[i]>> \o t : t \in SortSlice(Remove(s, i), less)} :
                   i \in {k \in DOMAIN s :
                             \A j \in DOMAIN s : <<s[j], s[k]>> \notin less}}

\* a less function without the tie-break on the population group
SortLessAgeOnly(a, b) == a.Age < b.Age

\* the less function of Catalog_t.Sort, on two star systems
SortLess(a, b) ==
    IF a.Age = b.Age THEN a.Population < b.Population ELSE a.Age < b.Age

\* the less function of Catalog_t.SortByDistance
DistanceLess(a, b) == a.distance < b.distance

\* the pairs of elements of s that a less function on star systems relates
LessPairs(s, h, name) ==
    {pq \in Range(s) \X Range(s) :
        IF name = "Sort" THEN SortLess(h[pq[1]], h[pq[2]])
        ELSE DistanceLess(h[pq[1]], h[pq[2]])}

\* a first loop that leaves the distances as they were
SetDistancesStale(h, ptrs, origin) == h

\* the first loop of SortByDistance: every system of the catalog gets its distance
SetDistances(h, ptrs, origin) ==
    [p \in DOMAIN h |->
        IF p \in Range(ptrs)
        THEN [h[p] EXCEPT !.distance = DistanceTo(h[p].Coordinates, origin)]
        ELSE h[p]]

\* a Merge that appends the other catalog's own systems, moved in place
MergeInPlace(h, target, other, offset) ==
    [heap |-> [p \in DOMAIN h |->
                  IF p \in Range(other)
                  THEN [h[p] EXCEPT !.Coordinates = Translate(h[p].Coordinates, offset)]
                  ELSE h[p]],
     StarSystems |-> target \o other]

\* the loop of Merge: one new system per system of other, appended to target
MergeLoop(h, target, other, offset) ==
    LET copies == [j \in 1..Len(other) |->
                    StarSystem(h[other[j]].Population, h[other[j]].Age,
                               Translate(h[other[j]].Coordinates, offset))]
    IN  [heap |-> h \o copies,
         StarSystems |-> target \o [j \in 1..Len(other) |-> Len(h) + j]]

(***************************************************************************)
(* Inputs of the catalog operations                                        *)
(***************************************************************************)
OffsetInputs == {XYZ(1000, -2000, 2000)}
OriginInputs == {XYZ(0, 0, 0), XYZ(1000, 0, 0)}

\* ties in age and population at different places, a tie in age alone, and a
\* younger system of an older population group
StarSystemInputs ==
    {StarSystem(YoungPopulationI, 1900000, XYZ(0, 0, 0)),
     StarSystem(YoungPopulationI, 1900000, XYZ(2000, 0, 0)),
     StarSystem(IntermediatePopulationI, 1900000, XYZ(0, 0, 0)),
     StarSystem(YoungPopulationI, 2000000, XYZ(2000, 0, 0))}

SeqUpTo(S, n) == UNION {[1..k -> S] : k \in 0..n}

Called(name, c, other, arg) == [name |-> name, c |-> c, other |-> other, arg |-> arg]

\* two catalogs as the generators leave them: every system its own object
InitCatalog ==
    /\ \E a \in SeqUpTo(StarSystemInputs, MaxObjects - 2),
          b \in SeqUpTo(StarSystemInputs, MaxObjects - 3) :
          /\ heap = a \o b
          /\ cats = [c \in CatalogNames |->
                        IF c = "catalog" THEN [i \in 1..Len(a) |-> i]
                        ELSE [j \in 1..Len(b) |-> Len(a) + j]]
    /\ op = Called("none", "", "", XYZ(0, 0, 0))
    /\ call = NoCall
    /\ bg = NoBackground
    /\ made = NotMade
    /\ oc = NotCalled
    /\ runs = NoRuns

\* c.Merge(other, offset)
Merge(c, other, offset) ==
    /\ Len(heap) + Len(cats[other]) <= MaxObjects
    /\ LET r == MergeLoop(heap, cats[c], cats[other], offset)
       IN  /\ heap' = r.heap
           /\ cats' = [cats EXCEPT ![c] = r.StarSystems]
    /\ op' = Called("Merge", c, other, offset)
    /\ UNCHANGED <<made, oc, runs, call, bg>>

\* c.Sort()
Sort(c) ==
    /\ \E less \in {LessPairs(cats[c], heap, "Sort")} :
          \E t \in SortSlice(cats[c], less) :
              cats' = [cats EXCEPT ![c] = t]
    /\ heap' = heap
    /\ op' = Called("Sort", c, "", XYZ(0, 0, 0))
    /\ UNCHANGED <<made, oc, runs, call, bg>>

\* c.SortByDistance(origin)
SortByDistance(c, origin) ==
    /\ heap' = SetDistances(heap, cats[c], origin)
    /\ \E less \in {LessPairs(cats[c], heap', "SortByDistance")} :
          \E t \in SortSlice(cats[c], less) :
              cats' = [cats EXCEPT ![c] = t]
    /\ op' = Called("SortByDistance", c, "", origin)
    /\ UNCHANGED <<made, oc, runs, call, bg>>

\* the run's catalog is g.Catalog; the cluster catalog is merged into it
NextCatalog ==
    \/ \E offset \in OffsetInputs : Merge("catalog", "cluster", offset)
    \/ Sort("catalog")
    \/ \E origin \in OriginInputs : SortByDistance("catalog", origin)

SpecCatalog == InitCatalog /\ [][NextCatalog]_vars

(***************************************************************************)
(* Construction of a generator                                             *)
(***************************************************************************)
RadialInputs == {-30001, -300, -299, 300, 30000, 30001}
VerticalInputs == {-1251, 1250, 1251}
OptionInputs == {Option(r, h) : r \in RadialInputs, h \in VerticalInputs}
SourceInputs == {"nil", "PCG"}
Catalog_e == {0, 1}

\* the arguments of the call of New that the run is about to make
Arguments(n, prng, cat, options) ==
    [called |-> FALSE, n |-> n, prng |-> prng, cat |-> cat, options |-> options,
     g |-> Nil, err |-> NoError, applied |-> 0]

InitNew ==
    /\ heap = <<>>
    /\ cats = [c \in CatalogNames |-> <<>>]
    /\ op = Called("none", "", "", XYZ(0, 0, 0))
    /\ call = NoCall
    /\ bg = NoBackground
    /\ oc = NotCalled
    /\ runs = NoRuns
    /\ \E n \in 0..MaxN, prng \in SourceInputs, cat \in Catalog_e,
          options \in SeqUpTo(OptionInputs, MaxOptions) :
          made = Arguments(n, prng, cat, options)

\* New(n, prng, cat, options...), the one construction of a run
New ==
    /\ ~made.called
    /\ \E r \in {NewResult(made.n, made.prng, made.cat, made.options)} :
          made' = [made EXCEPT !.called = TRUE, !.g = r.g, !.err = r.err,
                               !.applied = r.applied]
    /\ UNCHANGED <<catalogVars, oc, runs, call, bg>>

NextNew == New

SpecNew == InitNew /\ [][NextNew]_vars

(***************************************************************************)
(* PRNG: the dice, the variances and the samplers, each a function of the  *)
(* values it draws from the source                                         *)
(***************************************************************************)
\* the values of n calls of p.IntN(6)
Dice(n) == [1..n -> 0..5]

RECURSIVE RollD6(_, _)
\* p.RollD6(n): d[i] is the value of the i-th p.IntN(6)
RollD6(n, d) == IF n <= 0 THEN 0 ELSE RollD6(n - 1, d) + d[n] + 1

RECURSIVE RollD10Less(_, _)
\* ten-sided dice numbered from 0
RollD10Less(n, d) == IF n <= 0 THEN 0 ELSE RollD10Less(n - 1, d) + d[n]

RECURSIVE RollD10(_, _)
\* p.RollD10(n): d[i] is the value of the i-th p.IntN(10)
RollD10(n, d) == IF n <= 0 THEN 0 ELSE RollD10(n - 1, d) + d[n] + 1

\* p.RollD100(): k is the value of p.IntN(100)
RollD100(k) == k + 1

\* p.RollPercentile(): f is the value of p.Float64(), in thousandths
RollPercentile(f) == f

\* p.Vary5Pct(f), in hundredths of the unit of f
Vary5Pct(f, d) == f * (93 + RollD6(2, d))

\* p.Vary10Pct(f), in hundredths of the unit of f
Vary10Pct(f, d) == f * (86 + RollD6(4, d))

\* g.Vary5pct(f) of the Generator, in hundredths of the unit of f
Vary5pct(f, d) == f * (93 + RollD6(2, d))

\* a variance of 10% that starts from 0.87
Vary10pctFrom87(f, d) == f * (87 + RollD6(4, d))

\* g.Vary10pct(f) of the Generator, in hundredths of the unit of f
Vary10pct(f, d) == f * (86 + RollD6(4, d))

\* p.VaryNPct(f, pct), pct in hundredths: f + (f*(3d6 - 10.5)/15)*pct
VaryNPct(f, pct, d) == f + Quot(f * (2 * RollD6(3, d) - 21) * pct, 3000)

\* the cosine and the sine, in thousandths, of twelve directions of the circle
\* whose cosine and sine are rational
Directions ==
    << <<1000, 0>>, <<800, 600>>, <<600, 800>>, <<0, 1000>>, <<-600, 800>>,
       <<-800, 600>>, <<-1000, 0>>, <<-800, -600>>, <<-600, -800>>, <<0, -1000>>,
       <<600, -800>>, <<800, -600>> >>

\* a conversion that takes the sine of phi for 1
SphericalFlat(d, f2, f3) ==
    LET theta == Directions[(f2 * 12) \div 1000 + 1]
        cosPhi == 2 * f3 - 1000
    IN  XYZ(Quot(d * theta[1], 1000), Quot(d * theta[2], 1000),
            Quot(d * cosPhi, 1000))

\* the point at distance d (thousandths) under theta = f2 * 2 * math.Pi, taken
\* to the direction below it, and phi = math.Acos(2*f3 - 1)
Spherical(d, f2, f3) ==
    LET theta == Directions[(f2 * 12) \div 1000 + 1]
        cosPhi == 2 * f3 - 1000
        sinPhi == Sqrt(1000000 - cosPhi * cosPhi)
        flat == Quot(d * sinPhi, 1000)
    IN  XYZ(Quot(flat * theta[1], 1000), Quot(flat * theta[2], 1000),
            Quot(d * cosPhi, 1000))

\* p.GenXYZ(): u holds the values of its three calls of p.Float64()
GenXYZ(u) == Spherical(Cbrt(u[1] * 1000000), u[2], u[3])

\* a point of the whole ball of radius maxPct: the distance leaves out minPct
GenZonedXYZFromCentre(minPct, maxPct, u) ==
    Spherical(Cbrt(u[1] * (maxPct * maxPct * maxPct)), u[2], u[3])

\* p.GenZonedXYZ(minPct, maxPct), the fractions in hundredths: u holds the
\* values of its three calls of Float64
GenZonedXYZ(minPct, maxPct, u) ==
    Spherical(Cbrt(u[1] * (maxPct * maxPct * maxPct - minPct * minPct * minPct)
                   + 1000 * minPct * minPct * minPct),
              u[2], u[3])

(***************************************************************************)
(* NewOpenCluster                                                          *)
(***************************************************************************)
minPctClusterCoreZone == 0
maxPctClusterCoreZone == 5
minPctTidalRadiusZone == 5
maxPctTidalRadiusZone == 20
minPctExtendedHaloZone == 20
maxPctExtendedHaloZone == 100

\* the cases of the two switches on RollD100: <<the greatest roll of the case,
\* the base age, the age range>>, the ages in tenths of a billion years
TightlyBoundAges ==
    << <<2, 0, 1>>, <<4, 1, 1>>, <<6, 2, 1>>, <<8, 3, 1>>, <<10, 4, 1>>,
       <<12, 5, 1>>, <<14, 6, 1>>, <<16, 7, 1>>, <<18, 8, 1>>, <<20, 9, 1>>,
       <<45, 10, 20>> >>
TightlyBoundDefault == <<30, 50>>
LooselyBoundAges ==
    << <<21, 0, 1>>, <<38, 1, 1>>, <<52, 2, 1>>, <<64, 3, 1>>, <<73, 4, 1>>,
       <<81, 5, 1>>, <<87, 6, 1>>, <<92, 7, 1>>, <<96, 8, 1>> >>
LooselyBoundDefault == <<9, 1>>

\* a switch: the rest of the first row of the table whose case holds, the
\* default when none does; holds is the set of the rows whose case holds
Switch(table, holds, default) ==
    IF holds = {} THEN default
    ELSE LET i == CHOOSE k \in holds : \A j \in holds : k <= j
         IN  SubSeq(table[i], 2, Len(table[i]))

isTightlyBound(d) == RollD6(3, d) <= 5

\* a switch that takes the last case that holds
AgeBranchLast(tight, n) ==
    LET table == IF tight THEN TightlyBoundAges ELSE LooselyBoundAges
        holds == {i \in DOMAIN table : n <= table[i][1]}
    IN  IF holds = {} THEN Len(table) + 1
        ELSE CHOOSE k \in holds : \A j \in holds : k >= j

\* the branch of the switch on RollD100 that the roll n takes: the first case
\* that holds, and the default, numbered after the cases, when none does
AgeBranch(tight, n) ==
    LET table == IF tight THEN TightlyBoundAges ELSE LooselyBoundAges
        holds == {i \in DOMAIN table : n <= table[i][1]}
    IN  IF holds = {} THEN Len(table) + 1
        ELSE CHOOSE k \in holds : \A j \in holds : k <= j

\* clusterAge, in 1/10000 of a billion years: n is the roll of RollD100, f the
\* value of RollPercentile
clusterAge(tight, n, f) ==
    LET table == IF tight THEN TightlyBoundAges ELSE LooselyBoundAges
        default == IF tight THEN TightlyBoundDefault ELSE LooselyBoundDefault
        row == Switch(table, {i \in DOMAIN table : n <= table[i][1]}, default)
    IN  1000 * row[1] + row[2] * f

\* the rows <<base, range>> of the two switches whose sum base + range*u
\* float64 rounds up to base + range when u is the greatest value of Float64,
\* 1 - 2^-53
RoundsUp ==
    {<<1, 1>>, <<2, 1>>, <<4, 1>>, <<5, 1>>, <<6, 1>>, <<8, 1>>, <<9, 1>>,
     <<10, 20>>}

\* clusterAge when RollPercentile returns the greatest value of Float64:
\* base + range where float64 rounds the sum up to it, the last 1/10000 of a
\* billion years below it where it does not
clusterAgeAtGreatest(tight, n) ==
    LET table == IF tight THEN TightlyBoundAges ELSE LooselyBoundAges
        default == IF tight THEN TightlyBoundDefault ELSE LooselyBoundDefault
        row == Switch(table, {i \in DOMAIN table : n <= table[i][1]}, default)
    IN  1000 * (row[1] + row[2]) - (IF row \in RoundsUp THEN 0 ELSE 1)

\* a population group that takes an age of exactly 2.0 or 5.0 for the younger
stpopAbove(age) ==
    IF age <= 20000 THEN YoungPopulationI
    ELSE IF age <= 50000 THEN IntermediatePopulationI
    ELSE OldPopulationI

stpop(age) ==
    IF age < 20000 THEN YoungPopulationI
    ELSE IF age < 50000 THEN IntermediatePopulationI
    ELSE OldPopulationI

\* clusterRadius, in 1/120 parsec: RollD6(2)/2 + (VaryNPct(1.0, 0.25) - 1)
clusterRadius(d2, d3) == 60 * RollD6(2, d2) + (VaryNPct(120, 25, d3) - 120)

\* numberOfStarSystems: math.Floor(number * clusterRadius^3), the number rolled
\* in halves and the radius in 1/120, so the floor of rolled * radius^3 / 3456000
numberOfStarSystems(tight, d, radius) ==
    LET dice == RollD6(2, d)
        rolled == IF tight /\ dice < 7 THEN 7 ELSE dice
        cube == radius * radius * radius
    IN  rolled * (cube \div 3456000) + (rolled * (cube % 3456000)) \div 3456000

\* effectiveClusterAge, in 1/10000 of a billion years, rounded down
effectiveClusterAge(tight, age) == IF tight THEN age \div 10 ELSE age

\* the cluster evaporation table: <<the age the case is below, corePct,
\* tidalPct, extendedHaloPct>>, the percentages in hundredths
EvaporationTable ==
    << <<1000, 100, 0, 0>>, <<2000, 80, 20, 0>>, <<3000, 64, 32, 4>>,
       <<4000, 51, 38, 10>>, <<5000, 41, 41, 15>>, <<6000, 33, 41, 20>>,
       <<7000, 26, 39, 25>>, <<8000, 21, 37, 28>>, <<9000, 17, 33, 29>>,
       <<10000, 13, 30, 30>> >>
EvaporationDefault == <<11, 27, 30>>

EvaporationRow(age) ==
    Switch(EvaporationTable,
           {i \in DOMAIN EvaporationTable : age < EvaporationTable[i][1]},
           EvaporationDefault)

\* the products pct*total, below 1500, that float64 leaves just under the whole
\* number they equal
RoundsBelow ==
    {<<41, 300>>, <<41, 600>>, <<41, 1200>>, <<29, 100>>, <<29, 200>>,
     <<29, 400>>, <<29, 800>>}

\* int(pct * numberOfStarSystems)
IntOf(pct, total) ==
    (pct * total) \div 100 - (IF <<pct, total>> \in RoundsBelow THEN 1 ELSE 0)

\* counts whose second increment goes to the extended halo
ZoneCountsHalo(pct, total) ==
    LET core == IntOf(pct[1], total)
        tidal == IntOf(pct[2], total)
        halo == IntOf(pct[3], total)
        more == IF core + tidal + halo < total THEN 1 ELSE 0
        again == IF more = 1 /\ core + more + tidal + halo < total THEN 1 ELSE 0
    IN  [coreCount |-> core + more, tidalCount |-> tidal,
         extendedHaloCount |-> halo + again]

\* coreCount, tidalCount, extendedHaloCount, and the two increments that follow
ZoneCounts(pct, total) ==
    LET core == IntOf(pct[1], total)
        tidal == IntOf(pct[2], total)
        halo == IntOf(pct[3], total)
        more == IF core + tidal + halo < total THEN 1 ELSE 0
        again == IF more = 1 /\ core + more + tidal + halo < total THEN 1 ELSE 0
    IN  [coreCount |-> core + more, tidalCount |-> tidal + again,
         extendedHaloCount |-> halo]

\* the zone of the i-th system the three loops append
ZoneOf(i, counts) ==
    IF i <= counts.coreCount
    THEN <<minPctClusterCoreZone, maxPctClusterCoreZone>>
    ELSE IF i <= counts.coreCount + counts.tidalCount
    THEN <<minPctTidalRadiusZone, maxPctTidalRadiusZone>>
    ELSE <<minPctExtendedHaloZone, maxPctExtendedHaloZone>>

PercentileInputs == {0, 500, 999}

InitCluster ==
    /\ heap = <<>>
    /\ cats = [c \in CatalogNames |-> <<>>]
    /\ op = Called("none", "", "", XYZ(0, 0, 0))
    /\ call = NoCall
    /\ bg = NoBackground
    /\ made = NotMade
    /\ oc = [NotCalled EXCEPT !.pc = "binding"]
    /\ runs = NoRuns

\* isTightlyBound := prng.RollD6(3) <= 5
RollBinding ==
    /\ oc.pc = "binding"
    /\ \E d \in Dice(3) :
          oc' = [oc EXCEPT !.pc = "age", !.isTightlyBound = isTightlyBound(d)]
    /\ UNCHANGED <<catalogVars, made, runs, call, bg>>

\* the switch on RollD100 and the population group
RollAge ==
    /\ oc.pc = "age"
    /\ \E k \in 0..99 :
          \E age \in {clusterAge(oc.isTightlyBound, RollD100(k), RollPercentile(f)) :
                          f \in PercentileInputs}
                     \cup {clusterAgeAtGreatest(oc.isTightlyBound, RollD100(k))} :
              oc' = [oc EXCEPT !.pc = "radius", !.clusterAge = age,
                               !.stpop = stpop(age)]
    /\ UNCHANGED <<catalogVars, made, runs, call, bg>>

\* clusterRadius
RollRadius ==
    /\ oc.pc = "radius"
    /\ \E d2 \in Dice(2), d3 \in Dice(3) :
          oc' = [oc EXCEPT !.pc = "number", !.clusterRadius = clusterRadius(d2, d3)]
    /\ UNCHANGED <<catalogVars, made, runs, call, bg>>

\* numberOfStarSystems
RollNumber ==
    /\ oc.pc = "number"
    /\ \E d \in Dice(2) :
          oc' = [oc EXCEPT !.pc = "zones",
                           !.numberOfStarSystems =
                               numberOfStarSystems(oc.isTightlyBound, d,
                                                   oc.clusterRadius)]
    /\ UNCHANGED <<catalogVars, made, runs, call, bg>>

\* the evaporation table and the counts of the three zones
CountZones ==
    /\ oc.pc = "zones"
    /\ \E counts \in {ZoneCounts(EvaporationRow(effectiveClusterAge(
                                     oc.isTightlyBound, oc.clusterAge)),
                                 oc.numberOfStarSystems)} :
          oc' = [oc EXCEPT !.pc = "loops", !.coreCount = counts.coreCount,
                           !.tidalCount = counts.tidalCount,
                           !.extendedHaloCount = counts.extendedHaloCount]
    /\ UNCHANGED <<catalogVars, made, runs, call, bg>>

NextCluster ==
    \/ RollBinding
    \/ RollAge
    \/ RollRadius
    \/ RollNumber
    \/ CountZones

SpecCluster == InitCluster /\ [][NextCluster]_vars

(***************************************************************************)
(* A generation run: New, BackgroundPopulation, GenZonedXYZ for the centre *)
(* of the cluster, OpenCluster, Merge, SortByDistance.  Two runs from one  *)
(* seed take every step together.                                          *)
(***************************************************************************)
\* rand.New(src): the values the source gives are a fixed function of its seed.
\* A small counter-based generator stands for PCG: the state s of the source is
\* its seed and the number of values drawn, and Uint(seed, k) is the k-th value.
Uint(seed, k) ==
    LET x == (757 * seed + 331 * k + 17) % 32749
        y == (x * x + 74) % 32749
    IN  (75 * y + x) % 32749

\* the source built from a seed
Seeded(seed) == [seed |-> seed, drawn |-> 0]

\* the state of the source after k more draws
Drawn(s, k) == [s EXCEPT !.drawn = @ + k]

\* the k-th draw from state s, taken by p.IntN(n)
IntN(s, k, n) == Uint(s.seed, s.drawn + k) % n

\* the k-th draw from state s, taken by p.Float64(), in thousandths
Float64(s, k) == (Uint(s.seed, s.drawn + k) * 1000) \div 32749

\* the c draws after the k-th
IntNs(s, k, c, n) == [i \in 1..c |-> IntN(s, k + i, n)]
Float64s(s, k, c) == [i \in 1..c |-> Float64(s, k + i)]

\* the values of three calls of the package-level rand.Float64(), whose source
\* the runtime seeds at random
GlobalInputs == {<<0, 0, 500>>, <<999, 250, 0>>}

PopulationKeys ==
    <<"YoungPopulationI", "IntermediatePopulationI", "OldPopulationI",
      "DiskPopulationII", "HaloPopulationII">>

RECURSIVE NewBackgroundPopulation(_, _, _, _, _)
\* NewBackgroundPopulation(pm, prng) from the group at place key on, k draws
\* made before it: the systems appended and the draws made.  radius is the
\* radius of the population's volume, in 1/120 parsec.
NewBackgroundPopulation(pm, radius, s, k, key) ==
    IF key > Len(PopulationKeys) THEN [StarSystems |-> <<>>, drawn |-> k]
    ELSE LET v == pm[PopulationKeys[key]]
             raw == Vary10Pct(v.Density * pm.Volume, IntNs(s, k, 4, 6))
             number == (raw + 99999999) \div 100000000
             systems ==
                 [i \in 1..number |->
                     StarSystem(key - 1,
                                1000 * v.BaseAge
                                    + v.AgeRange * RollPercentile(
                                          Float64(s, k + 4 + 4 * (i - 1) + 1)),
                                Scale(GenXYZ(Float64s(s, k + 4 + 4 * (i - 1) + 1, 3)),
                                      radius))]
             rest == NewBackgroundPopulation(pm, radius, s, k + 4 + 4 * number,
                                             key + 1)
         IN  [StarSystems |-> systems \o rest.StarSystems, drawn |-> rest.drawn]

\* the locals of NewOpenCluster when its loops begin, the source in state s
OpenClusterLocals(s) ==
    LET tight == isTightlyBound(IntNs(s, 0, 3, 6))
        age == clusterAge(tight, RollD100(IntN(s, 4, 100)),
                          RollPercentile(Float64(s, 5)))
        radius == clusterRadius(IntNs(s, 5, 2, 6), IntNs(s, 7, 3, 6))
        number == numberOfStarSystems(tight, IntNs(s, 10, 2, 6), radius)
        counts == ZoneCounts(EvaporationRow(effectiveClusterAge(tight, age)), number)
    IN  [pc |-> "loops", isTightlyBound |-> tight, clusterAge |-> age,
         stpop |-> stpop(age), clusterRadius |-> radius,
         numberOfStarSystems |-> number, coreCount |-> counts.coreCount,
         tidalCount |-> counts.tidalCount,
         extendedHaloCount |-> counts.extendedHaloCount, catalog |-> <<>>,
         err |-> Unreturned]

\* the systems the three loops of NewOpenCluster append, 12 draws made before
\* them: w[i] holds the values of rand.Float64() in the i-th GenZonedXYZ
OpenClusterLoops(l, s, w) ==
    [i \in 1..(l.coreCount + l.tidalCount + l.extendedHaloCount) |->
        StarSystem(l.stpop,
                   Vary5Pct(l.clusterAge, IntNs(s, 12 + 2 * (i - 1), 2, 6)),
                   Scale(GenZonedXYZ(ZoneOf(i, l)[1], ZoneOf(i, l)[2], w[i]),
                         l.clusterRadius))]

\* what New(n, rand.NewPCG(seed, seed), ReferenceCatalog) begins a run with
NewRun(seed, n) ==
    [stage |-> "New", seed |-> seed, prng |-> Seeded(seed),
     g |-> NewResult(n, "PCG", 0, <<>>).g,
     Catalog |-> <<>>, clusterCenter |-> XYZ(0, 0, 0), clusterCatalog |-> <<>>]

\* g.BackgroundPopulation()
BackgroundPopulation(r) ==
    LET b == NewBackgroundPopulation(r.g.pm, 120 * r.g.Radius, r.prng, 0, 1)
    IN  [r EXCEPT !.stage = "BackgroundPopulation", !.Catalog = b.StarSystems,
                  !.prng = Drawn(r.prng, b.drawn)]

\* clusterCenter := g.GenZonedXYZ(0.77, 0.89)
ClusterCenter(r, u) ==
    [r EXCEPT !.stage = "GenZonedXYZ",
              !.clusterCenter = Scale(GenZonedXYZ(77, 89, u), 120 * r.g.Radius)]

\* clusterCatalog, err := g.OpenCluster(clusterCenter)
OpenCluster(r, w) ==
    LET l == OpenClusterLocals(r.prng)
        c == OpenClusterLoops(l, r.prng, w)
    IN  [r EXCEPT !.stage = "OpenCluster", !.clusterCatalog = c,
                  !.prng = Drawn(r.prng, 12 + 2 * Len(c))]

\* the number of systems the cluster of the run will hold
ClusterSize(r) ==
    LET l == OpenClusterLocals(r.prng)
    IN  l.coreCount + l.tidalCount + l.extendedHaloCount

\* the systems, in the order of the pointers t, of the heap h
Systems(h, t) == [k \in DOMAIN t |-> h[t[k]]]

\* g.Catalog.Merge(clusterCatalog, clusterCenter)
MergeCluster(r) ==
    LET m == MergeLoop(r.Catalog \o r.clusterCatalog,
                       [i \in 1..Len(r.Catalog) |-> i],
                       [j \in 1..Len(r.clusterCatalog) |-> Len(r.Catalog) + j],
                       r.clusterCenter)
    IN  [r EXCEPT !.stage = "Merge", !.Catalog = Systems(m.heap, m.StarSystems)]

InitRun ==
    /\ heap = <<>>
    /\ cats = [c \in CatalogNames |-> <<>>]
    /\ op = Called("none", "", "", XYZ(0, 0, 0))
    /\ call = NoCall
    /\ bg = NoBackground
    /\ made = NotMade
    /\ oc = NotCalled
    /\ \E seed \in 0..MaxSeed, n \in 0..MaxN :
          runs = [i \in 1..2 |-> NewRun(seed, n)]

StepBackgroundPopulation ==
    /\ runs[1].stage = "New"
    /\ runs' = [i \in 1..2 |-> BackgroundPopulation(runs[i])]
    /\ UNCHANGED <<catalogVars, made, oc, call, bg>>

StepGenZonedXYZ ==
    /\ runs[1].stage = "BackgroundPopulation"
    /\ \E u \in [1..2 -> GlobalInputs] :
          runs' = [i \in 1..2 |-> ClusterCenter(runs[i], u[i])]
    /\ UNCHANGED <<catalogVars, made, oc, call, bg>>

StepOpenCluster ==
    /\ runs[1].stage = "GenZonedXYZ"
    /\ \E size \in {[i \in 1..2 |-> ClusterSize(runs[i])]} :
          /\ \A i \in 1..2 : size[i] <= MaxClusterSystems
          /\ \E w1 \in [1..size[1] -> GlobalInputs],
                w2 \in [1..size[2] -> GlobalInputs] :
                runs' = [i \in 1..2 |->
                            OpenCluster(runs[i], IF i = 1 THEN w1 ELSE w2)]
    /\ UNCHANGED <<catalogVars, made, oc, call, bg>>

StepMerge ==
    /\ runs[1].stage = "OpenCluster"
    /\ runs' = [i \in 1..2 |-> MergeCluster(runs[i])]
    /\ UNCHANGED <<catalogVars, made, oc, call, bg>>

\* g.Catalog.SortByDistance(origin), origin the zero value
StepSortByDistance ==
    /\ runs[1].stage = "Merge"
    /\ \E h \in {[i \in 1..2 |->
                    SetDistances(runs[i].Catalog,
                                 [k \in 1..Len(runs[i].Catalog) |-> k],
                                 XYZ(0, 0, 0))]} :
          \E less \in {[i \in 1..2 |->
                          LessPairs([k \in 1..Len(h[i]) |-> k], h[i],
                                    "SortByDistance")]} :
              \E t1 \in SortSlice([k \in 1..Len(h[1]) |-> k], less[1]),
                 t2 \in SortSlice([k \in 1..Len(h[2]) |-> k], less[2]) :
                  runs' = [i \in 1..2 |->
                              [runs[i] EXCEPT
                                  !.stage = "SortByDistance",
                                  !.Catalog = Systems(h[i], IF i = 1 THEN t1 ELSE t2)]]
    /\ UNCHANGED <<catalogVars, made, oc, call, bg>>

NextRun ==
    \/ StepBackgroundPopulation
    \/ StepGenZonedXYZ
    \/ StepOpenCluster
    \/ StepMerge
    \/ StepSortByDistance

SpecRun == InitRun /\ [][NextRun]_vars

(***************************************************************************)
(* The three loops of NewOpenCluster, from locals that a choice of the      *)
(* draws before the loops leaves                                            *)
(***************************************************************************)
MaxLoopSystems == 4     \* the loops run for a cluster of at most so many systems

\* the locals of NewOpenCluster when its loops begin: d, d2, d3 and dn are the
\* dice of isTightlyBound, of clusterRadius (RollD6(2) and VaryNPct) and of
\* numberOfStarSystems, k the value of IntN(100), f the value of Float64
LoopLocals(d, k, f, d2, d3, dn) ==
    LET tight == isTightlyBound(d)
        age == clusterAge(tight, RollD100(k), RollPercentile(f))
        radius == clusterRadius(d2, d3)
        number == numberOfStarSystems(tight, dn, radius)
        counts == ZoneCounts(EvaporationRow(effectiveClusterAge(tight, age)), number)
    IN  [pc |-> "loops", isTightlyBound |-> tight, clusterAge |-> age,
         stpop |-> stpop(age), clusterRadius |-> radius,
         numberOfStarSystems |-> number, coreCount |-> counts.coreCount,
         tidalCount |-> counts.tidalCount,
         extendedHaloCount |-> counts.extendedHaloCount, catalog |-> <<>>,
         err |-> Unreturned]

\* the draws before the loops
BindingDice == {<<0, 0, 0>>, <<5, 5, 5>>}
D100Inputs == {0, 30, 99}
AgePercentiles == {0, 400, 499, 500, 999}
RadiusDice == {<<0, 0, 0>>, <<5, 5, 5>>}
NumberDice == {<<0, 0>>, <<5, 5>>}

\* the dice of one call of Vary5Pct in the loops
AgeDice == {<<0, 0>>, <<2, 3>>, <<5, 5>>}

InitLoops ==
    /\ heap = <<>>
    /\ cats = [c \in CatalogNames |-> <<>>]
    /\ op = Called("none", "", "", XYZ(0, 0, 0))
    /\ made = NotMade
    /\ runs = NoRuns
    /\ call = NoCall
    /\ bg = NoBackground
    /\ \E d \in BindingDice, k \in D100Inputs, f \in AgePercentiles,
          d3 \in RadiusDice, dn \in NumberDice :
          /\ oc = LoopLocals(d, k, f, <<0, 0>>, d3, dn)
          /\ oc.coreCount + oc.tidalCount + oc.extendedHaloCount <= MaxLoopSystems

\* the system one pass of a loop appends: d the dice of Vary5Pct, u the values
\* of rand.Float64() in GenZonedXYZ
LoopSystem(minPct, maxPct, d, u) ==
    StarSystem(oc.stpop, Vary5Pct(oc.clusterAge, d),
               Scale(GenZonedXYZ(minPct, maxPct, u), oc.clusterRadius))

\* one pass of the loop over the cluster core zone
AppendCore ==
    /\ oc.pc = "loops"
    /\ oc.coreCount > 0
    /\ \E d \in AgeDice, u \in GlobalInputs :
          oc' = [oc EXCEPT
                    !.catalog = Append(@, LoopSystem(minPctClusterCoreZone,
                                                     maxPctClusterCoreZone, d, u)),
                    !.coreCount = @ - 1]
    /\ UNCHANGED <<catalogVars, made, runs, call, bg>>

\* one pass of the loop over the tidal radius zone
AppendTidal ==
    /\ oc.pc = "loops"
    /\ oc.coreCount <= 0 /\ oc.tidalCount > 0
    /\ \E d \in AgeDice, u \in GlobalInputs :
          oc' = [oc EXCEPT
                    !.catalog = Append(@, LoopSystem(minPctTidalRadiusZone,
                                                     maxPctTidalRadiusZone, d, u)),
                    !.tidalCount = @ - 1]
    /\ UNCHANGED <<catalogVars, made, runs, call, bg>>

\* one pass of the loop over the extended halo zone
AppendHalo ==
    /\ oc.pc = "loops"
    /\ oc.coreCount <= 0 /\ oc.tidalCount <= 0 /\ oc.extendedHaloCount > 0
    /\ \E d \in AgeDice, u \in GlobalInputs :
          oc' = [oc EXCEPT
                    !.catalog = Append(@, LoopSystem(minPctExtendedHaloZone,
                                                     maxPctExtendedHaloZone, d, u)),
                    !.extendedHaloCount = @ - 1]
    /\ UNCHANGED <<catalogVars, made, runs, call, bg>>

\* a return as soon as the loop over the cluster core zone ends
ReturnCatalogEarly ==
    /\ oc.pc = "loops"
    /\ oc.coreCount <= 0
    /\ oc' = [oc EXCEPT !.pc = "done", !.err = NoError]
    /\ UNCHANGED <<catalogVars, made, runs, call, bg>>

\* return &catalog, nil
ReturnCatalog ==
    /\ oc.pc = "loops"
    /\ oc.coreCount <= 0 /\ oc.tidalCount <= 0 /\ oc.extendedHaloCount <= 0
    /\ oc' = [oc EXCEPT !.pc = "done", !.err = NoError]
    /\ UNCHANGED <<catalogVars, made, runs, call, bg>>

NextLoops ==
    \/ AppendCore
    \/ AppendTidal
    \/ AppendHalo
    \/ ReturnCatalog

SpecLoops == InitLoops /\ [][NextLoops]_vars

\* NewOpenCluster runs on one goroutine and nothing in it blocks, so a step
\* that can be taken is taken
SpecLoopsFair == SpecLoops /\ WF_vars(NextLoops)

(***************************************************************************)
(* NewBackgroundPopulation, one pass of its outer loop at a time             *)
(***************************************************************************)
\* int(math.Floor(..)) in the place of int(math.Ceil(..))
numberOfBackgroundSystemsFloor(v, volume, d) ==
    Vary10Pct(v.Density * volume, d) \div 100000000

\* numberOfStarSystems := int(math.Ceil(prng.Vary10Pct(v.value.Density * pm.Volume))):
\* the density is in systems per million cubic parsecs and the variance in
\* hundredths, so the product is in 1/100000000 of a system
numberOfBackgroundSystems(v, volume, d) ==
    (Vary10Pct(v.Density * volume, d) + 99999999) \div 100000000

\* the dice of one call of Vary10Pct: the sums 4, 14 and 24
TenPctDice == {<<0, 0, 0, 0>>, <<2, 3, 2, 3>>, <<5, 5, 5, 5>>}

\* the values of the four calls of Float64 for one system: RollPercentile,
\* then the three of GenXYZ
SystemDraws == {<<0, 0, 0, 500>>, <<999, 999, 250, 0>>}

\* the call of NewBackgroundPopulation(pm, prng) for the generator g, before
\* the first pass of its loop
BackgroundOf(n, g) ==
    [pc |-> "groups", n |-> n, pm |-> g.pm, radius |-> 120 * g.Radius, key |-> 1,
     StarSystems |-> <<>>, rolled |-> <<>>, err |-> Unreturned]

InitBackground ==
    /\ heap = <<>>
    /\ cats = [c \in CatalogNames |-> <<>>]
    /\ op = Called("none", "", "", XYZ(0, 0, 0))
    /\ made = NotMade
    /\ oc = NotCalled
    /\ runs = NoRuns
    /\ call = NoCall
    /\ \E n \in 0..MaxN : bg = BackgroundOf(n, NewResult(n, "PCG", 0, <<>>).g)

\* one pass of the outer loop: the number of systems of the group at place
\* key, and the systems the inner loop appends
AppendPopulation ==
    /\ bg.pc = "groups"
    /\ bg.key <= Len(PopulationKeys)
    /\ \E d \in TenPctDice :
          \E v \in {bg.pm[PopulationKeys[bg.key]]} :
              \E number \in {numberOfBackgroundSystems(v, bg.pm.Volume, d)} :
                  \E w \in [1..number -> SystemDraws] :
                      bg' = [bg EXCEPT
                                !.StarSystems =
                                    @ \o [i \in 1..number |->
                                            StarSystem(
                                                bg.key - 1,
                                                1000 * v.BaseAge
                                                    + v.AgeRange * RollPercentile(w[i][1]),
                                                Scale(GenXYZ(SubSeq(w[i], 2, 4)),
                                                      bg.radius))],
                                !.key = @ + 1,
                                !.rolled = Append(@, RollD6(4, d))]
    /\ UNCHANGED <<catalogVars, made, oc, runs, call>>

\* return &c, nil
ReturnPopulation ==
    /\ bg.pc = "groups"
    /\ bg.key > Len(PopulationKeys)
    /\ bg' = [bg EXCEPT !.pc = "done", !.err = NoError]
    /\ UNCHANGED <<catalogVars, made, oc, runs, call>>

NextBackground ==
    \/ AppendPopulation
    \/ ReturnPopulation

SpecBackground == InitBackground /\ [][NextBackground]_vars

\* NewBackgroundPopulation runs on one goroutine and nothing in it blocks
SpecBackgroundFair == SpecBackground /\ WF_vars(NextBackground)

(***************************************************************************)
(* GenXYZ, and the coordinates NewBackgroundPopulation gives a system:     *)
(* one call, the values of Float64 and the radius drawn at the start        *)
(***************************************************************************)
MaxRadius == 3      \* the radius of the population's volume, in parsecs

\* the values of the three calls of Float64 in GenXYZ
DistanceDraws == {0, 1, 125, 500, 999}
ThetaDraws == {0, 100, 200, 300, 400, 500, 600, 700, 800, 900, 999}
PhiDraws == {0, 1, 250, 500, 750, 998, 999}

InitPoints ==
    /\ heap = <<>>
    /\ cats = [c \in CatalogNames |-> <<>>]
    /\ op = Called("none", "", "", XYZ(0, 0, 0))
    /\ made = NotMade
    /\ oc = NotCalled
    /\ runs = NoRuns
    /\ bg = NoBackground
    /\ \E u1 \in DistanceDraws, u2 \in ThetaDraws, u3 \in PhiDraws,
          radius \in 0..MaxRadius :
          call = CallOf("GenXYZ", [u |-> <<u1, u2, u3>>, radius |-> radius])

\* Coordinates: prng.GenXYZ().Scale(pm.Radius): the point GenXYZ returns and
\* the point scaled
CallGenXYZ ==
    /\ call.fn = "GenXYZ" /\ ~call.done
    /\ \E point \in {GenXYZ(call.args.u)} :
          call' = Returned([point |-> point,
                            Coordinates |-> Scale(point, 120 * call.args.radius)])
    /\ UNCHANGED <<catalogVars, made, oc, runs, bg>>

NextPoints == CallGenXYZ

SpecPoints == InitPoints /\ [][NextPoints]_vars

(***************************************************************************)
(* The volume functions: one call, its arguments drawn at the start         *)
(***************************************************************************)
VolumeFunctions ==
    {"VolumeForEarthLikeSystems", "VolumeForSolLikeNeighborhood",
     "PopulationModelForEarthLikeSystems", "PopulationModelForSolLikeNeighborhood"}

\* the numbers of systems and the tweaks a call is made with
VolumeNInputs == {0, 1, 2, 40, 100}
TweakInputs == {-1, 0, 1, 2, 5, 6}

InitVolumes ==
    /\ heap = <<>>
    /\ cats = [c \in CatalogNames |-> <<>>]
    /\ op = Called("none", "", "", XYZ(0, 0, 0))
    /\ made = NotMade
    /\ oc = NotCalled
    /\ runs = NoRuns
    /\ bg = NoBackground
    /\ \E fn \in VolumeFunctions, n \in VolumeNInputs, tweak \in TweakInputs :
          call = CallOf(fn, [n |-> n, tweak |-> tweak])

CallVolumeForEarthLikeSystems ==
    /\ call.fn = "VolumeForEarthLikeSystems" /\ ~call.done
    /\ call' = Returned(VolumeForEarthLikeSystems(call.args.n, call.args.tweak))
    /\ UNCHANGED <<catalogVars, made, oc, runs, bg>>

CallVolumeForSolLikeNeighborhood ==
    /\ call.fn = "VolumeForSolLikeNeighborhood" /\ ~call.done
    /\ call' = Returned(VolumeForSolLikeNeighborhood(call.args.n, call.args.tweak))
    /\ UNCHANGED <<catalogVars, made, oc, runs, bg>>

CallPopulationModelForEarthLikeSystems ==
    /\ call.fn = "PopulationModelForEarthLikeSystems" /\ ~call.done
    /\ call' = Returned(PopulationModelForEarthLikeSystems(call.args.n,
                                                           call.args.tweak))
    /\ UNCHANGED <<catalogVars, made, oc, runs, bg>>

CallPopulationModelForSolLikeNeighborhood ==
    /\ call.fn = "PopulationModelForSolLikeNeighborhood" /\ ~call.done
    /\ call' = Returned(PopulationModelForSolLikeNeighborhood(call.args.n,
                                                              call.args.tweak))
    /\ UNCHANGED <<catalogVars, made, oc, runs, bg>>

NextVolumes ==
    \/ CallVolumeForEarthLikeSystems
    \/ CallVolumeForSolLikeNeighborhood
    \/ CallPopulationModelForEarthLikeSystems
    \/ CallPopulationModelForSolLikeNeighborhood

SpecVolumes == InitVolumes /\ [][NextVolumes]_vars

(***************************************************************************)
(* The dice and the variances: one call, its arguments and the values the   *)
(* source gives drawn at the start                                          *)
(***************************************************************************)
MaxDice == 3    \* a call of RollD6 or RollD10 rolls at most so many dice

\* the values of n calls of p.IntN(10)
Dice10(n) == [1..n -> 0..9]

\* values of p.Float64(), in thousandths
Float64Inputs == {0, 1, 500, 998, 999}

\* the values varied, in the unit of the caller
VaryInputs == {-100, 0, 1, 10000}

DiceFunctions == {"RollD6", "RollD10", "RollD100", "RollPercentile"}
VaryFunctions == {"Vary5Pct", "Vary10Pct", "Vary5pct", "Vary10pct"}

InitDice ==
    /\ heap = <<>>
    /\ cats = [c \in CatalogNames |-> <<>>]
    /\ op = Called("none", "", "", XYZ(0, 0, 0))
    /\ made = NotMade
    /\ oc = NotCalled
    /\ runs = NoRuns
    /\ bg = NoBackground
    /\ \/ \E n \in -1..MaxDice : \E d \in Dice(n) :
             call = CallOf("RollD6", [n |-> n, d |-> d])
       \/ \E n \in -1..MaxDice : \E d \in Dice10(n) :
             call = CallOf("RollD10", [n |-> n, d |-> d])
       \/ \E k \in 0..99 : call = CallOf("RollD100", [k |-> k])
       \/ \E f \in Float64Inputs : call = CallOf("RollPercentile", [f |-> f])
       \/ \E fn \in {"Vary5Pct", "Vary5pct"}, f \in VaryInputs, d \in Dice(2) :
             call = CallOf(fn, [f |-> f, d |-> d])
       \/ \E fn \in {"Vary10Pct", "Vary10pct"}, f \in VaryInputs, d \in Dice(4) :
             call = CallOf(fn, [f |-> f, d |-> d])

CallRollD6 ==
    /\ call.fn = "RollD6" /\ ~call.done
    /\ call' = Returned(RollD6(call.args.n, call.args.d))
    /\ UNCHANGED <<catalogVars, made, oc, runs, bg>>

CallRollD10 ==
    /\ call.fn = "RollD10" /\ ~call.done
    /\ call' = Returned(RollD10(call.args.n, call.args.d))
    /\ UNCHANGED <<catalogVars, made, oc, runs, bg>>

CallRollD100 ==
    /\ call.fn = "RollD100" /\ ~call.done
    /\ call' = Returned(RollD100(call.args.k))
    /\ UNCHANGED <<catalogVars, made, oc, runs, bg>>

CallRollPercentile ==
    /\ call.fn = "RollPercentile" /\ ~call.done
    /\ call' = Returned(RollPercentile(call.args.f))
    /\ UNCHANGED <<catalogVars, made, oc, runs, bg>>

\* p.Vary5Pct(f) of the PRNG
CallVary5Pct ==
    /\ call.fn = "Vary5Pct" /\ ~call.done
    /\ call' = Returned(Vary5Pct(call.args.f, call.args.d))
    /\ UNCHANGED <<catalogVars, made, oc, runs, bg>>

\* p.Vary10Pct(f) of the PRNG
CallVary10Pct ==
    /\ call.fn = "Vary10Pct" /\ ~call.done
    /\ call' = Returned(Vary10Pct(call.args.f, call.args.d))
    /\ UNCHANGED <<catalogVars, made, oc, runs, bg>>

\* g.Vary5pct(f) of the Generator
CallVary5pct ==
    /\ call.fn = "Vary5pct" /\ ~call.done
    /\ call' = Returned(Vary5pct(call.args.f, call.args.d))
    /\ UNCHANGED <<catalogVars, made, oc, runs, bg>>

\* g.Vary10pct(f) of the Generator
CallVary10pct ==
    /\ call.fn = "Vary10pct" /\ ~call.done
    /\ call' = Returned(Vary10pct(call.args.f, call.args.d))
    /\ UNCHANGED <<catalogVars, made, oc, runs, bg>>

NextDice ==
    \/ CallRollD6
    \/ CallRollD10
    \/ CallRollD100
    \/ CallRollPercentile
    \/ CallVary5Pct
    \/ CallVary10Pct
    \/ CallVary5pct
    \/ CallVary10pct

SpecDice == InitDice /\ [][NextDice]_vars

(***************************************************************************)
(* The position-dependent model: one call, its arguments drawn at the start *)
(***************************************************************************)
\* offsets in parsecs at which the exponents are whole tenths: r in multiples
\* of 350, h in multiples of 1400
RadialOffsets == {-7000, -3500, -350, 0, 350, 3500, 7000}
VerticalOffsets == {-2800, -1400, 0, 1400, 2800}

InitDensity ==
    /\ heap = <<>>
    /\ cats = [c \in CatalogNames |-> <<>>]
    /\ op = Called("none", "", "", XYZ(0, 0, 0))
    /\ made = NotMade
    /\ oc = NotCalled
    /\ runs = NoRuns
    /\ bg = NoBackground
    /\ \E r \in RadialOffsets, h \in VerticalOffsets :
          \/ call = CallOf("AdvancedPopulationModelTable", [r |-> r, h |-> h])
          \/ \E fn \in {"PopulationModelForOtherNeighborhoods",
                        "VolumeForOtherNeighborhoods"},
                n \in 0..MaxN, tweak \in {0, 1} :
                call = CallOf(fn, [n |-> n, r |-> r, h |-> h, tweak |-> tweak])

CallAdvancedPopulationModelTable ==
    /\ call.fn = "AdvancedPopulationModelTable" /\ ~call.done
    /\ call' = Returned(AdvancedPopulationModelTable(call.args.r, call.args.h))
    /\ UNCHANGED <<catalogVars, made, oc, runs, bg>>

CallPopulationModelForOtherNeighborhoods ==
    /\ call.fn = "PopulationModelForOtherNeighborhoods" /\ ~call.done
    /\ call' = Returned(PopulationModelForOtherNeighborhoods(
                            call.args.n, call.args.r, call.args.h, call.args.tweak))
    /\ UNCHANGED <<catalogVars, made, oc, runs, bg>>

CallVolumeForOtherNeighborhoods ==
    /\ call.fn = "VolumeForOtherNeighborhoods" /\ ~call.done
    /\ call' = Returned(VolumeForOtherNeighborhoods(
                            call.args.n, call.args.r, call.args.h, call.args.tweak))
    /\ UNCHANGED <<catalogVars, made, oc, runs, bg>>

NextDensity ==
    \/ CallAdvancedPopulationModelTable
    \/ CallPopulationModelForOtherNeighborhoods
    \/ CallVolumeForOtherNeighborhoods

SpecDensity == InitDensity /\ [][NextDensity]_vars

(***************************************************************************)
(* The cluster age: one run of the switch on RollD100, its draws taken at  *)
(* the start                                                               *)
(***************************************************************************)
InitAges ==
    /\ heap = <<>>
    /\ cats = [c \in CatalogNames |-> <<>>]
    /\ op = Called("none", "", "", XYZ(0, 0, 0))
    /\ made = NotMade
    /\ oc = NotCalled
    /\ runs = NoRuns
    /\ bg = NoBackground
    /\ \E tight \in BOOLEAN, k \in 0..99, f \in Float64Inputs :
          call = CallOf("clusterAge", [tight |-> tight, k |-> k, f |-> f])

\* switch n := prng.RollD100(); { ... clusterAge = base + range*RollPercentile() }
CallClusterAge ==
    /\ call.fn = "clusterAge" /\ ~call.done
    /\ call' = Returned(
           [branch |-> AgeBranch(call.args.tight, RollD100(call.args.k)),
            clusterAge |-> clusterAge(call.args.tight, RollD100(call.args.k),
                                      RollPercentile(call.args.f))])
    /\ UNCHANGED <<catalogVars, made, oc, runs, bg>>

NextAges == CallClusterAge

SpecAges == InitAges /\ [][NextAges]_vars

(***************************************************************************)
(* The cluster radius and the number of star systems: one run of lines     *)
(* 137-147, its dice drawn at the start                                    *)
(***************************************************************************)
InitRadius ==
    /\ heap = <<>>
    /\ cats = [c \in CatalogNames |-> <<>>]
    /\ op = Called("none", "", "", XYZ(0, 0, 0))
    /\ made = NotMade
    /\ oc = NotCalled
    /\ runs = NoRuns
    /\ bg = NoBackground
    /\ \E tight \in BOOLEAN, d2 \in Dice(2), d3 \in Dice(3), dn \in NumberDice :
          call = CallOf("clusterRadius",
                        [tight |-> tight, d2 |-> d2, d3 |-> d3, dn |-> dn])

\* clusterRadius := prng.RollD6(2) / 2; clusterRadius += (prng.VaryNPct(1.0, 0.25) - 1);
\* numberOfStarSystems
CallClusterRadius ==
    /\ call.fn = "clusterRadius" /\ ~call.done
    /\ \E radius \in {clusterRadius(call.args.d2, call.args.d3)} :
          call' = Returned(
              [clusterRadius |-> radius,
               numberOfStarSystems |->
                   numberOfStarSystems(call.args.tight, call.args.dn, radius)])
    /\ UNCHANGED <<catalogVars, made, oc, runs, bg>>

NextRadius == CallClusterRadius

SpecRadius == InitRadius /\ [][NextRadius]_vars

(***************************************************************************)
(* Claims about the catalog operations, under SpecCatalog.  A step of an   *)
(* operation is one whose next state has that operation in op.             *)
(***************************************************************************)
Count(s, x) == Cardinality({i \in DOMAIN s : s[i] = x})

IsArrangement(s, t) ==
    /\ Len(s) = Len(t)
    /\ \A x \in Range(s) \cup Range(t) : Count(s, x) = Count(t, x)

\* the place of pointer x in the sequence t
Place(t, x) == CHOOSE i \in DOMAIN t : t[i] = x

SameValues(a, b) ==
    /\ a.Population = b.Population
    /\ a.Age = b.Age
    /\ a.Coordinates = b.Coordinates

\* the catalog holds a system that Merge made from a system of the cluster
HoldsMerged ==
    \E p \in Range(cats["catalog"]), q \in Range(cats["cluster"]) : p > q

MergeLeavesSource ==
    [][op'.name \in {"Merge", "Sort", "SortByDistance"} =>
        /\ \A c \in CatalogNames \ {op'.c} :
              /\ cats'[c] = cats[c]
              /\ \A p \in Range(cats[c]) : heap'[p] = heap[p]
        /\ (op'.name = "Merge" /\ op'.other # op'.c) =>
              \A i \in (Len(cats[op'.c]) + 1)..Len(cats'[op'.c]) :
                  /\ cats'[op'.c][i] \notin DOMAIN heap
                  /\ cats'[op'.c][i] \notin Range(cats'[op'.other])]_vars

MergeLeavesSourceWitness ==
    /\ op.name = "SortByDistance"
    /\ HoldsMerged
    /\ \E p \in Range(cats["catalog"]), q \in Range(cats["cluster"]) :
          p > q /\ heap[p].distance > 0 /\ heap[q].distance = 0

\* C5: Sort leaves the catalog an arrangement of the systems it held, no system's
\* population, age or coordinates changed, and of every two neighbours the first
\* has the smaller age, or the same age and a population group not above the
\* second's.
SortOrdersByAgeThenPopulation ==
    [][op'.name = "Sort" =>
        LET T == cats'[op'.c]
        IN  /\ IsArrangement(cats[op'.c], T)
            /\ DOMAIN heap' = DOMAIN heap
            /\ \A p \in DOMAIN heap : SameValues(heap'[p], heap[p])
            /\ \A i \in 1..(Len(T) - 1) :
                  \/ heap'[T[i]].Age < heap'[T[i + 1]].Age
                  \/ /\ heap'[T[i]].Age = heap'[T[i + 1]].Age
                     /\ heap'[T[i]].Population <= heap'[T[i + 1]].Population]_vars

SortOrdersByAgeThenPopulationWitness ==
    LET T == cats["catalog"]
    IN  /\ op.name = "Sort"
        /\ Len(T) >= 3
        /\ \E i, j \in DOMAIN T : i < j /\ T[i] > T[j]
        /\ \E i \in 1..(Len(T) - 1) :
              /\ heap[T[i]].Age = heap[T[i + 1]].Age
              /\ heap[T[i]].Population < heap[T[i + 1]].Population
        /\ \E i \in 1..(Len(T) - 1) :
              /\ heap[T[i]].Age < heap[T[i + 1]].Age
              /\ heap[T[i]].Population > heap[T[i + 1]].Population

\* the systems of two places tie in the order the operation sorts by
ExactTie(name, a, b) ==
    IF name = "Sort" THEN a.Age = b.Age /\ a.Population = b.Population
    ELSE a.distance = b.distance

\* C6: both sorts are stable: two systems that tie exactly (the same age and
\* population for Sort, the same distance to the origin for SortByDistance) are
\* after the sort in the order they had before it.
SortsAreStable ==
    [][op'.name \in {"Sort", "SortByDistance"} =>
        LET S == cats[op'.c]
            T == cats'[op'.c]
        IN  \A i, j \in DOMAIN S :
                (i < j /\ ExactTie(op'.name, heap'[S[i]], heap'[S[j]]))
                    => Place(T, S[i]) < Place(T, S[j])]_vars

SortByDistanceOrders ==
    [][op'.name = "SortByDistance" =>
        LET T == cats'[op'.c]
        IN  /\ IsArrangement(cats[op'.c], T)
            /\ DOMAIN heap' = DOMAIN heap
            /\ \A p \in DOMAIN heap : SameValues(heap'[p], heap[p])
            /\ \A p \in Range(T) :
                  LET d == heap'[p].distance
                      dx == heap'[p].Coordinates.X - op'.arg.X
                      dy == heap'[p].Coordinates.Y - op'.arg.Y
                      dz == heap'[p].Coordinates.Z - op'.arg.Z
                      sq == dx * dx + dy * dy + dz * dz
                  IN  d >= 0 /\ d * d <= sq /\ sq < (d + 1) * (d + 1)
            /\ \A i \in 1..(Len(T) - 1) :
                  heap'[T[i]].distance <= heap'[T[i + 1]].distance]_vars

SortByDistanceOrdersWitness ==
    LET T == cats["catalog"]
    IN  /\ op.name = "SortByDistance"
        /\ Len(T) >= 3
        /\ HoldsMerged
        /\ \E i, j \in DOMAIN T : i < j /\ T[i] > T[j]
        /\ heap[T[1]].distance < heap[T[Len(T)]].distance
        /\ \E p \in Range(T) : heap[p].Coordinates.Z # op.arg.Z

(***************************************************************************)
(* Claims about construction, under SpecNew.                               *)
(***************************************************************************)
InRange(o) == 300 <= Abs(o.r) /\ Abs(o.r) <= 30000 /\ Abs(o.h) <= 1250

\* the options of the call that are out of range, by their place
Rejected(options) == {i \in DOMAIN options : ~InRange(options[i])}

Least(S) == CHOOSE x \in S : \A y \in S : x <= y

\* C9: New fails atomically: with a nil source it returns (nil, ErrPRNGNil)
\* whatever the options; otherwise the options are called in order and the
\* first one to return an error ends the call with (nil, that error), no later
\* option called; an error comes with no generator, success with a generator
\* and a nil error.
NewFailsAtomically ==
    made.called =>
        /\ (made.err # NoError) <=> (made.g = Nil)
        /\ made.prng = "nil" =>
              made.g = Nil /\ made.err = ErrPRNGNil /\ made.applied = 0
        /\ (made.prng # "nil" /\ Rejected(made.options) = {}) =>
              /\ made.g # Nil
              /\ made.err = NoError
              /\ made.applied = Len(made.options)
        /\ (made.prng # "nil" /\ Rejected(made.options) # {}) =>
              LET k == Least(Rejected(made.options))
              IN  /\ made.g = Nil
                  /\ made.err \in {ErrNeighborhoodOffsetTooSmall,
                                   ErrNeighborhoodOffsetTooLarge}
                  /\ made.err = WithOffset(made.options[k], Nil)
                  /\ made.applied = k

NewFailsAtomicallyWitness ==
    /\ made.called
    /\ made.prng # "nil"
    /\ Len(made.options) = 2
    /\ InRange(made.options[2])
    /\ made.err = ErrNeighborhoodOffsetTooLarge
    /\ made.applied = 1
    /\ made.g = Nil

\* the call passed a source and the one option WithOffset(r, h)
OneOffset == made.called /\ made.prng # "nil" /\ Len(made.options) = 1

\* C10 as stated: construction with WithOffset(r, h) succeeds exactly when
\* 300 <= |r| <= 30000 and |h| <= 1250; otherwise it fails with
\* ErrNeighborhoodOffsetTooSmall when |r| < 300 and with
\* ErrNeighborhoodOffsetTooLarge when |r| > 30000 or |h| > 1250.
OffsetErrorsAsStated ==
    OneOffset =>
        LET r == Abs(made.options[1].r)
            h == Abs(made.options[1].h)
        IN  /\ (made.err = NoError) <=> (300 <= r /\ r <= 30000 /\ h <= 1250)
            /\ r < 300 => made.err = ErrNeighborhoodOffsetTooSmall
            /\ (r > 30000 \/ h > 1250) => made.err = ErrNeighborhoodOffsetTooLarge

\* C10 as amended: construction with WithOffset(r, h) succeeds exactly when
\* 300 <= |r| <= 30000 and |h| <= 1250; otherwise it fails with
\* ErrNeighborhoodOffsetTooSmall when |r| < 300, whatever h is, and with
\* ErrNeighborhoodOffsetTooLarge when |r| >= 300 and (|r| > 30000 or |h| > 1250).
OffsetErrors ==
    OneOffset =>
        LET r == Abs(made.options[1].r)
            h == Abs(made.options[1].h)
        IN  /\ (made.err = NoError) <=> (300 <= r /\ r <= 30000 /\ h <= 1250)
            /\ (made.err = NoError) <=> (made.g # Nil)
            /\ r < 300 => made.err = ErrNeighborhoodOffsetTooSmall
            /\ (r >= 300 /\ (r > 30000 \/ h > 1250)) =>
                  made.err = ErrNeighborhoodOffsetTooLarge

OffsetErrorsWitness ==
    /\ OneOffset
    /\ made.options[1].r = -299
    /\ made.options[1].h = 1251
    /\ made.err = ErrNeighborhoodOffsetTooSmall

(***************************************************************************)
(* Claims about NewOpenCluster, under SpecCluster.                         *)
(***************************************************************************)
\* C1: whatever the binding type, the cluster age and the total, the counts of
\* the three zones after the remainder is handed out add up to the floored
\* total: coreCount + tidalCount + extendedHaloCount = numberOfStarSystems, so
\* that the three loops append exactly that many systems.
ZoneCountsSumToTotal ==
    oc.pc = "loops" =>
        oc.coreCount + oc.tidalCount + oc.extendedHaloCount = oc.numberOfStarSystems

(***************************************************************************)
(* Claims about a generation run, under SpecRun.                           *)
(***************************************************************************)
\* C2: a run is deterministic given its seed: two runs that build the generator
\* from the same seed and make the same calls (BackgroundPopulation, GenZonedXYZ
\* for the centre of the cluster, OpenCluster, Merge, SortByDistance) hold, after
\* every call, identical catalogs: the same cluster catalog and the same
\* g.Catalog, system by system.
RunIsDeterministic ==
    (runs[1].seed = runs[2].seed /\ runs[1].stage = runs[2].stage) =>
        /\ runs[1].clusterCatalog = runs[2].clusterCatalog
        /\ runs[1].Catalog = runs[2].Catalog

(***************************************************************************)
(* Claims about the population model of a generator, under SpecNew.        *)
(***************************************************************************)
\* C11: a generator that New returns holds the advanced population model of
\* (|r|, |h|), volume included, when it was constructed with one valid
\* WithOffset(r, h), and the basic table of the reference neighborhood when it
\* was constructed without options.
OffsetSelectsModel ==
    (made.called /\ made.err = NoError) =>
        /\ Len(made.options) = 0 =>
              made.g.pm = PopulationModelForSolLikeNeighborhood(made.n, 0)
        /\ Len(made.options) = 1 =>
              made.g.pm = PopulationModelForOtherNeighborhoods(
                              made.n, made.options[1].r, made.options[1].h, 0)

\* C13: the radius of a generator that New returns is a whole number of
\* parsecs, the least r whose sphere holds the volume of the model,
\* (4/3)*pi*r^3 >= Volume (355/113 for pi), and is 0 exactly when n = 0.
RadiusIsLeastCover ==
    (made.called /\ made.err = NoError) =>
        LET volume == made.g.pm.Volume
            r == made.g.Radius
        IN  /\ r \in Nat
            /\ 4 * 355 * r * r * r >= 3 * 113 * volume
            /\ r > 0 => 4 * 355 * (r - 1) * (r - 1) * (r - 1) < 3 * 113 * volume
            /\ (r = 0) <=> (made.n = 0)

\* New(3, ..) has returned a generator of radius 3: the volume 36 needs more
\* than radius 2
RadiusIsLeastCoverWitness ==
    /\ made.called /\ made.err = NoError
    /\ made.n = 3
    /\ made.g.pm.Volume = 36
    /\ made.g.Radius = 3

(***************************************************************************)
(* Claims about the volume functions, under SpecVolumes.                   *)
(***************************************************************************)
\* the tweak that counts: the tweak inside the window 0 < tweak <= most, else 0
Within(tweak, most) == IF 0 < tweak /\ tweak <= most THEN tweak ELSE 0

\* the volume a returned call holds: the result, or the Volume of the model
VolumeReturned ==
    IF call.fn \in {"VolumeForEarthLikeSystems", "VolumeForSolLikeNeighborhood"}
    THEN call.result
    ELSE call.result.Volume

\* C12: VolumeForEarthLikeSystems(n, tweak) and the Volume of
\* PopulationModelForEarthLikeSystems(n, tweak) are n*2*(150+t), t the tweak if
\* 0 < tweak <= 5 and 0 otherwise; VolumeForSolLikeNeighborhood(n, tweak) and
\* the Volume of PopulationModelForSolLikeNeighborhood(n, tweak) are n*(12+t),
\* t the tweak if 0 < tweak <= 1 and 0 otherwise; (40, 0) gives 12000 for the
\* first pair and (100, 1) gives 1300 for the second.
VolumesAsStated ==
    (call.fn \in VolumeFunctions /\ call.done) =>
        LET n == call.args.n
            tweak == call.args.tweak
            earth == call.fn \in {"VolumeForEarthLikeSystems",
                                  "PopulationModelForEarthLikeSystems"}
        IN  /\ n >= 0
            /\ earth => VolumeReturned = n * 2 * (150 + Within(tweak, 5))
            /\ ~earth => VolumeReturned = n * (12 + Within(tweak, 1))
            /\ (earth /\ ~(0 < tweak /\ tweak <= 5)) => VolumeReturned = n * 300
            /\ (~earth /\ ~(0 < tweak /\ tweak <= 1)) => VolumeReturned = n * 12
            /\ (earth /\ n = 40 /\ tweak = 0) => VolumeReturned = 12000
            /\ (~earth /\ n = 100 /\ tweak = 1) => VolumeReturned = 1300

\* a call of VolumeForSolLikeNeighborhood(100, 2), a tweak outside the window,
\* has returned
VolumesAsStatedWitness ==
    /\ call.fn = "VolumeForSolLikeNeighborhood" /\ call.done
    /\ call.args = [n |-> 100, tweak |-> 2]
    /\ call.result = 1200

(***************************************************************************)
(* Claims about the dice and the variances, under SpecDice.  A variance is *)
(* in hundredths of the unit of f.                                         *)
(***************************************************************************)
\* C14: Vary5Pct(f) is f*(0.93 + s/100), s the sum of 2 six-sided dice, and
\* Vary10Pct(f) is f*(0.86 + s/100), s the sum of 4 six-sided dice; for f >= 0
\* the first lies in [0.95*f, 1.05*f] and the second in [0.90*f, 1.10*f]; the
\* least and the greatest sum of the dice give the two ends; Vary5pct and
\* Vary10pct of the Generator are the same.
VaryWithinBounds ==
    (call.fn \in VaryFunctions /\ call.done) =>
        LET f == call.args.f
            d == call.args.d
            five == call.fn \in {"Vary5Pct", "Vary5pct"}
            s == IF five THEN d[1] + d[2] + 2 ELSE d[1] + d[2] + d[3] + d[4] + 4
            base == IF five THEN 93 ELSE 86
            low == IF five THEN 95 ELSE 90
            high == IF five THEN 105 ELSE 110
        IN  /\ call.result = f * (base + s)
            /\ f >= 0 => (low * f <= call.result /\ call.result <= high * f)
            /\ (\A i \in DOMAIN d : d[i] = 0) => call.result = low * f
            /\ (\A i \in DOMAIN d : d[i] = 5) => call.result = high * f

\* Vary10pct(10000) of the Generator has returned 11000, four sixes rolled
VaryWithinBoundsWitness ==
    /\ call.fn = "Vary10pct" /\ call.done
    /\ call.args.f = 10000
    /\ \A i \in 1..4 : call.args.d[i] = 5
    /\ call.result = 1100000

\* C15: RollD6(n) is a whole number in [n, 6n] and RollD10(n) one in [n, 10n]
\* for n >= 1, both are 0 for n <= 0, RollD100() is in [1, 100] and
\* RollPercentile() is in [0, 1), 1 excluded, whatever the source gives.
DiceWithinRange ==
    (call.fn \in DiceFunctions /\ call.done) =>
        /\ call.fn = "RollD6" =>
              IF call.args.n >= 1
              THEN call.result \in call.args.n..(6 * call.args.n)
              ELSE call.result = 0
        /\ call.fn = "RollD10" =>
              IF call.args.n >= 1
              THEN call.result \in call.args.n..(10 * call.args.n)
              ELSE call.result = 0
        /\ call.fn = "RollD100" => call.result \in 1..100
        /\ call.fn = "RollPercentile" => (0 <= call.result /\ call.result < 1000)

\* RollD10(2) has returned 20, its greatest value
DiceWithinRangeWitness ==
    /\ call.fn = "RollD10" /\ call.done
    /\ call.args.n = 2
    /\ call.result = 20

(***************************************************************************)
(* Claims about the position-dependent model, under SpecDensity.           *)
(***************************************************************************)
\* C16: the combined density of AdvancedPopulationModelTable(r, h) is the sum
\* of the five group densities, is above zero, and is below the combined
\* density at every offset nearer the centre (|r| smaller, h the same) and at
\* every offset nearer the plane (|h| smaller, r the same), for r and h of
\* either sign passed to the table function.
CombinedDensityDecreases ==
    (call.fn = "AdvancedPopulationModelTable" /\ call.done) =>
        LET r == call.args.r
            h == call.args.h
            pm == call.result
        IN  /\ pm.CombinedDensity =
                   pm.YoungPopulationI.Density + pm.IntermediatePopulationI.Density
                       + pm.OldPopulationI.Density + pm.DiskPopulationII.Density
                       + pm.HaloPopulationII.Density
            /\ pm.CombinedDensity > 0
            /\ \A nearer \in RadialOffsets :
                  Abs(nearer) < Abs(r) =>
                      pm.CombinedDensity
                          < AdvancedPopulationModelTable(nearer, h).CombinedDensity
            /\ \A nearer \in VerticalOffsets :
                  Abs(nearer) < Abs(h) =>
                      pm.CombinedDensity
                          < AdvancedPopulationModelTable(r, nearer).CombinedDensity

(***************************************************************************)
(* Claims about the systems of an open cluster, under SpecLoops.           *)
(***************************************************************************)
\* the row of the basic table for a population group
GroupOf(population) == BasicPopulationModelTable[PopulationKeys[population + 1]]

\* C17: every star system of a catalog that NewOpenCluster builds has an age
\* that is not negative and is at most base age + age range of the population
\* group it is tagged with (2.0, 5.0, 8.0, 9.5, 12.5 billion years).
AgeWithinGroup ==
    \A i \in DOMAIN oc.catalog :
        LET system == oc.catalog[i]
            group == GroupOf(system.Population)
        IN  /\ 0 <= system.Age
            /\ system.Age <= 1000 * (group.BaseAge + group.AgeRange)

\* C20: every system of one open cluster carries the population group that the
\* cluster age alone gives: Young-I below 2.0, Intermediate-I from 2.0 to below
\* 5.0, Old-I from 5.0 on; Disk-II and Halo-II never occur.
ClusterSharesPopulation ==
    \A i \in DOMAIN oc.catalog :
        /\ oc.catalog[i].Population =
               (IF oc.clusterAge < 20000 THEN YoungPopulationI
                ELSE IF oc.clusterAge < 50000 THEN IntermediatePopulationI
                ELSE OldPopulationI)
        /\ oc.catalog[i].Population \notin {DiskPopulationII, HaloPopulationII}

\* NewOpenCluster has returned a cluster of at least two systems whose age is
\* exactly 2.0, every system Intermediate-I
ClusterSharesPopulationWitness ==
    /\ oc.pc = "done"
    /\ oc.clusterAge = 20000
    /\ Len(oc.catalog) >= 2
    /\ \A i \in DOMAIN oc.catalog : oc.catalog[i].Population = IntermediatePopulationI

(***************************************************************************)
(* Claims about GenXYZ, under SpecPoints.  Coordinates are in thousandths. *)
(***************************************************************************)
\* the square of the distance of a point from the origin
SquareOf(c) == c.X * c.X + c.Y * c.Y + c.Z * c.Z

\* C18: the point GenXYZ returns lies in the closed unit ball, no farther from
\* the origin than the cube root of its first draw, and the coordinates
\* NewBackgroundPopulation gives a system, that point scaled by the radius of
\* the model, lie within that radius of the origin.
PointsWithinBall ==
    (call.fn = "GenXYZ" /\ call.done) =>
        LET d == Cbrt(call.args.u[1] * 1000000)
            within == 1000 * call.args.radius
        IN  /\ SquareOf(call.result.point) <= 1000000
            /\ d < 1000
            /\ SquareOf(call.result.point) <= d * d
            /\ SquareOf(call.result.Coordinates) <= within * within

\* GenXYZ has returned a point more than 0.99 from the origin, off every axis
\* plane, and the system is placed more than 2.9 parsecs out in a radius of 3
PointsWithinBallWitness ==
    /\ call.fn = "GenXYZ" /\ call.done
    /\ call.args.radius = 3
    /\ SquareOf(call.result.point) > 990 * 990
    /\ call.result.point.X # 0 /\ call.result.point.Y # 0 /\ call.result.point.Z # 0
    /\ SquareOf(call.result.Coordinates) > 2900 * 2900

(***************************************************************************)
(* Claims about NewBackgroundPopulation, under SpecBackground.             *)
(***************************************************************************)
\* the number of systems of the catalog so far that carry the population
Tagged(population) ==
    Cardinality({i \in DOMAIN bg.StarSystems :
                    bg.StarSystems[i].Population = population})

\* c is the least whole number that is at least raw/100000000
IsCeiling(c, raw) == c * 100000000 >= raw /\ (c - 1) * 100000000 < raw

\* C19: for a model of volume > 0 whose group densities are all > 0, each pass
\* appends exactly ceil(v*density*volume) systems tagged with its group, v in
\* [0.90, 1.10] the variance rolled in that pass, the groups in the order
\* Young-I, Intermediate-I, Old-I, Disk-II, Halo-II; so every group has at
\* least one system, the tags never decrease along the catalog, and the
\* catalog returned is empty only when the volume is 0.
BackgroundCounts ==
    (bg.pc \in {"groups", "done"}) =>
        /\ Len(bg.rolled) = bg.key - 1
        /\ \A key \in 1..(bg.key - 1) :
              LET v == bg.pm[PopulationKeys[key]]
                  factor == 86 + bg.rolled[key]
              IN  /\ 90 <= factor /\ factor <= 110
                  /\ IsCeiling(Tagged(key - 1), factor * v.Density * bg.pm.Volume)
                  /\ (bg.pm.Volume > 0 /\ v.Density > 0) => Tagged(key - 1) >= 1
        /\ \A population \in StellarPopulation_e :
              population >= bg.key - 1 => Tagged(population) = 0
        /\ \A i, j \in DOMAIN bg.StarSystems :
              i < j => bg.StarSystems[i].Population <= bg.StarSystems[j].Population
        /\ (bg.pc = "done" /\ bg.StarSystems = <<>>) => bg.pm.Volume = 0

\* NewBackgroundPopulation has returned for a volume of 36 cubic parsecs: two
\* systems for Young-I and, under the variance 1.10, two for Intermediate-I
BackgroundCountsWitness ==
    /\ bg.pc = "done"
    /\ bg.pm.Volume = 36
    /\ bg.rolled[2] = 24
    /\ Tagged(YoungPopulationI) = 2
    /\ Tagged(IntermediatePopulationI) = 2
    /\ Tagged(HaloPopulationII) = 1

(***************************************************************************)
(* C21, under SpecAges.                                                    *)
(***************************************************************************)
\* the buckets of a table: <<the least roll, the greatest roll, the base age,
\* the age range>> of each case, then of the default, which takes the rolls
\* above the last case up to 100
Buckets(tight) ==
    LET table == IF tight THEN TightlyBoundAges ELSE LooselyBoundAges
        default == IF tight THEN TightlyBoundDefault ELSE LooselyBoundDefault
        least(i) == IF i = 1 THEN 1 ELSE table[i - 1][1] + 1
    IN  [i \in 1..(Len(table) + 1) |->
            IF i <= Len(table)
            THEN <<least(i), table[i][1], table[i][2], table[i][3]>>
            ELSE <<least(i), 100, default[1], default[2]>>]

\* the buckets that hold the roll n
BucketsOf(tight, n) ==
    {i \in DOMAIN Buckets(tight) :
        Buckets(tight)[i][1] <= n /\ n <= Buckets(tight)[i][2]}

\* what C21 says of a run of the switch, the tightly-bound table having
\* buckets buckets: the roll is in exactly one bucket, which is the branch
\* taken, every bucket holds a roll, and the age is base + range*u, u in [0, 1)
AgeOfOneBucket(buckets) ==
    (call.fn = "clusterAge" /\ call.done) =>
        LET tight == call.args.tight
            n == RollD100(call.args.k)
            b == Buckets(tight)[call.result.branch]
        IN  /\ n \in 1..100
            /\ BucketsOf(tight, n) = {call.result.branch}
            /\ \A i \in DOMAIN Buckets(tight) :
                   \E m \in 1..100 : BucketsOf(tight, m) = {i}
            /\ Len(Buckets(tight)) = IF tight THEN buckets ELSE 10
            /\ call.args.f \in 0..999
            /\ call.result.clusterAge = 1000 * b[3] + b[4] * call.args.f

\* C21, as stated: every roll 1..100 falls in exactly one bucket of its table,
\* the tightly-bound table has exactly 11 buckets and the loosely-bound table
\* exactly 10, and the bucket assigns cluster age = base + range*u, u in [0, 1)
AgeTablesAsStated == AgeOfOneBucket(11)

\* C21, amended: the same with exactly 12 buckets in the tightly-bound table,
\* its eleven cases and its default
AgeTablesPartition == AgeOfOneBucket(12)

\* a tightly-bound cluster whose roll takes the default, the twelfth bucket
AgeTablesPartitionWitness ==
    /\ call.fn = "clusterAge" /\ call.done
    /\ call.args.tight
    /\ call.result.branch = 12
    /\ call.result.clusterAge >= 30000

(***************************************************************************)
(* C22, under SpecCluster.                                                 *)
(***************************************************************************)
\* the counts int(pct * numberOfStarSystems) of the cluster in oc, before the
\* increments
FlooredCounts ==
    LET pct == EvaporationRow(effectiveClusterAge(oc.isTightlyBound,
                                                  oc.clusterAge))
    IN  [c |-> IntOf(pct[1], oc.numberOfStarSystems),
         t |-> IntOf(pct[2], oc.numberOfStarSystems),
         h |-> IntOf(pct[3], oc.numberOfStarSystems)]

\* C22: with the floored counts c, t and h, the final core count is c or c + 1,
\* the final tidal count is t or t + 1 and the final halo count is h; the core
\* count is incremented exactly when c + t + h < total, and the tidal count
\* exactly when the sum is still below the total after the core increment,
\* never without it
RemainderPolicy ==
    oc.pc = "loops" =>
        LET c == FlooredCounts.c
            t == FlooredCounts.t
            h == FlooredCounts.h
            total == oc.numberOfStarSystems
        IN  /\ oc.coreCount \in {c, c + 1}
            /\ oc.tidalCount \in {t, t + 1}
            /\ oc.extendedHaloCount = h
            /\ (oc.coreCount = c + 1) <=> (c + t + h < total)
            /\ (oc.tidalCount = t + 1) <=>
                   (c + t + h < total /\ c + 1 + t + h < total)
            /\ (oc.tidalCount = t + 1) => (oc.coreCount = c + 1)

\* a cluster whose core and tidal counts were both incremented, with systems
\* in the halo
RemainderPolicyWitness ==
    /\ oc.pc = "loops"
    /\ oc.coreCount = FlooredCounts.c + 1
    /\ oc.tidalCount = FlooredCounts.t + 1
    /\ oc.extendedHaloCount > 0

(***************************************************************************)
(* C23, under SpecLoops.                                                   *)
(***************************************************************************)
\* the final counts of the zones of the cluster in oc, as they were when the
\* loops began
FinalCounts ==
    ZoneCounts(EvaporationRow(effectiveClusterAge(oc.isTightlyBound,
                                                  oc.clusterAge)),
               oc.numberOfStarSystems)

\* the distance, in thousandths of a parsec, of the i-th system of the cluster
\* from the origin of the cluster
DistanceFromOrigin(i) == Sqrt(SquareOf(oc.catalog[i].Coordinates))

\* the i-th system lies between minPct and maxPct hundredths of the cluster
\* radius, which is in 1/120 parsec; the coordinates of the model are whole
\* thousandths of a parsec rounded towards zero, so its distance is the
\* distance of the program less a part of a thousandth
LiesBetween(i, minPct, maxPct) ==
    /\ 12 * (DistanceFromOrigin(i) + 1) > minPct * oc.clusterRadius
    /\ 12 * DistanceFromOrigin(i) <= maxPct * oc.clusterRadius

\* C23: the catalog of NewOpenCluster holds first the core systems, then the
\* tidal systems, then the halo systems, as many of each as the final count of
\* its zone; a core system lies within [0, 0.05*R] of the origin of the
\* cluster, a tidal system within [0.05*R, 0.20*R] and a halo system within
\* [0.20*R, 1.00*R], R the cluster radius
ZonesInOrder ==
    LET core == FinalCounts.coreCount
        tidal == FinalCounts.tidalCount
        halo == FinalCounts.extendedHaloCount
    IN  /\ Len(oc.catalog) <= core + tidal + halo
        /\ (oc.pc = "done") => (Len(oc.catalog) = core + tidal + halo)
        /\ \A i \in DOMAIN oc.catalog :
               IF i <= core THEN LiesBetween(i, 0, 5)
               ELSE IF i <= core + tidal THEN LiesBetween(i, 5, 20)
               ELSE LiesBetween(i, 20, 100)

\* a returned catalog with systems of all three zones, a tidal system at the
\* least distance of its zone and a halo system beyond the tidal zone
ZonesInOrderWitness ==
    /\ oc.pc = "done"
    /\ FinalCounts.coreCount > 0
    /\ FinalCounts.tidalCount > 1
    /\ FinalCounts.extendedHaloCount > 0
    /\ 12 * DistanceFromOrigin(FinalCounts.coreCount + 1) <= 5 * oc.clusterRadius
    /\ 12 * DistanceFromOrigin(FinalCounts.coreCount + 2) > 5 * oc.clusterRadius
    /\ 12 * DistanceFromOrigin(Len(oc.catalog)) > 20 * oc.clusterRadius

(***************************************************************************)
(* C24, under SpecRadius.                                                  *)
(***************************************************************************)
\* what the run added to half the 2d6 roll, in 1/120 parsec
Perturbation == call.result.clusterRadius - 60 * RollD6(2, call.args.d2)

\* the dice that mirror d: each die 7 less its value
Mirrored(d) == [i \in DOMAIN d |-> 5 - d[i]]

\* the radius is half the 2d6 roll plus (3d6 - 10.5)/15 * 0.25, which dice
\* that mirror each other give with opposite signs; the radius is positive
\* and the number of star systems not negative
RadiusIsPositive ==
    (call.fn = "clusterRadius" /\ call.done) =>
        /\ Perturbation = 2 * RollD6(3, call.args.d3) - 21
        /\ clusterRadius(call.args.d2, Mirrored(call.args.d3))
               - 60 * RollD6(2, call.args.d2) = -Perturbation
        /\ call.result.clusterRadius > 0
        /\ call.result.numberOfStarSystems >= 0

\* C24: the radius is half the 2d6 roll plus a perturbation symmetric about 0
\* that ranges over +/-0.25 parsec, the 3d6 sums 3 and 18 giving -0.25 and
\* +0.25; the radius is always positive and the number of star systems never
\* negative
RadiusVariesByQuarter ==
    (call.fn = "clusterRadius" /\ call.done) =>
        /\ RadiusIsPositive
        /\ Perturbation \in -30..30
        /\ RollD6(3, call.args.d3) = 3 => Perturbation = -30
        /\ RollD6(3, call.args.d3) = 18 => Perturbation = 30

(***************************************************************************)
(* C25, under SpecLoopsFair.                                               *)
(***************************************************************************)
\* NewOpenCluster has returned a nil error and a catalog that holds as many
\* systems as the final counts of the zones add up to, which is no more than
\* numberOfStarSystems, and none when that is 0
ReturnedCatalog ==
    LET sum == FinalCounts.coreCount + FinalCounts.tidalCount
                  + FinalCounts.extendedHaloCount
    IN  /\ oc.err = NoError
        /\ Len(oc.catalog) = sum
        /\ sum <= oc.numberOfStarSystems
        /\ oc.numberOfStarSystems = 0 => oc.catalog = <<>>

\* C25: NewOpenCluster has no failure path and always terminates: whatever
\* the draws, it returns, with a nil error and a catalog whose length is the
\* sum of the final zone counts, which never exceeds the floored total; when
\* the total is 0 the catalog is empty
AlwaysReturns ==
    /\ <>(oc.pc = "done")
    /\ [](oc.err \in {Unreturned, NoError})
    /\ []((oc.pc = "done") => ReturnedCatalog)
    /\ []((oc.pc # "done") => (oc.err = Unreturned))

\* the part of C25 about NewBackgroundPopulation, under SpecBackgroundFair: it
\* returns, and with a nil error
PopulationAlwaysReturns ==
    /\ <>(bg.pc = "done")
    /\ []((bg.pc = "done") => (bg.err = NoError))
    /\ []((bg.pc # "done") => (bg.err = Unreturned))

\* a loosely-bound cluster of radius below 1 parsec whose count roll is 2: no
\* systems, an empty catalog and a nil error
AlwaysReturnsWitness ==
    /\ oc.pc = "done"
    /\ ~oc.isTightlyBound
    /\ oc.clusterRadius < 120
    /\ oc.numberOfStarSystems = 0
    /\ oc.catalog = <<>>
    /\ oc.err = NoError

(***************************************************************************)
(* C26, under SpecCluster.                                                 *)
(***************************************************************************)
\* the row of the evaporation table that the cluster in oc selects
SelectedRow ==
    EvaporationRow(effectiveClusterAge(oc.isTightlyBound, oc.clusterAge))

\* what C26 says of a tightly-bound cluster: its age is below 8.0 and its
\* effective age, a tenth of it, below 0.8, so it selects neither the
\* catch-all row nor the rows for 0.8 <= effective age < 1.0
TightRowsUnreached ==
    (oc.pc \notin {"binding", "age"} /\ oc.isTightlyBound) =>
        /\ oc.clusterAge < 80000
        /\ 10 * effectiveClusterAge(TRUE, oc.clusterAge) <= oc.clusterAge
        /\ effectiveClusterAge(TRUE, oc.clusterAge) < 8000
        /\ SelectedRow \notin {<<11, 27, 30>>, <<17, 33, 29>>, <<13, 30, 30>>}

\* C26: a cluster is tightly bound exactly when the 3d6 sum is <= 5; a
\* loosely-bound cluster always has cluster age < 1.0 and is Young-I, a
\* tightly-bound cluster always has cluster age < 8.0 and effective age
\* age/10 < 0.8, so the catch-all evaporation row (0.11, 0.27, 0.30) is never
\* selected, and a tightly-bound cluster never selects the rows for
\* 0.8 <= effective age < 1.0
CatchAllRowUnreached ==
    /\ \A d \in Dice(3) : isTightlyBound(d) <=> (d[1] + d[2] + d[3] + 3 <= 5)
    /\ TightRowsUnreached
    /\ (oc.pc \notin {"binding", "age"} /\ ~oc.isTightlyBound) =>
           /\ oc.clusterAge < 10000
           /\ oc.stpop = YoungPopulationI
           /\ SelectedRow # <<11, 27, 30>>
====
